---- MODULE Spec2Model ----
(***************************************************************************)
(* Model of the intrusive singly-linked list of                            *)
(* src/src/custom_links/singly_linked_list.rs: the Link field, the         *)
(* default LinkOps, the link-graph primitives, CursorMut and the list      *)
(* root.  Memory is a map from link addresses to the content of the        *)
(* link's `next` cell; a list root is a head cell; objects are the test    *)
(* module's `Obj` (two links and a value), reached through ObjAdapter1     *)
(* and ObjAdapter2.                                                        *)
(***************************************************************************)
EXTENDS Integers, Sequences, FiniteSets, TLC

\* ------------------------------------------------------------------ bounds
NumObj == 3      \* objects the caller has created (make_obj)
NumLists == 2    \* list roots the caller holds
MaxRaw == 2      \* cap on the outstanding into_raw count of one object
MaxClones == 1   \* cap on the handles made by clone_pointer and not yet dropped

\* ------------------------------------------------------- addresses, layout
\* Option<NonNull<Link>>::None is the null address.
None == 0
\* A marker that coincides with the end-of-chain value.
UNLINKED_MARKER_is_null == None
\* const UNLINKED_MARKER = Some(NonNull::new_unchecked(1 as *mut Link))
UNLINKED_MARKER == 1
\* struct Obj { link1: Link, link2: Link, value: u32 }: three words, link1
\* at word 0 and link2 at word 1 of the object.
ObjSize == 3
Link1Offset == 0
Link2Offset == 1

\* The addresses of the objects the caller created (Box allocations).
Obj == {i * ObjSize : i \in 1..NumObj}
\* The roots of type SinglyLinkedList<ObjAdapter1>.
Lists == 1..NumLists
\* One more root, of type SinglyLinkedList<ObjAdapter2> (the second list of
\* test_multi_list).
List2 == NumLists + 1
Roots == Lists \cup {List2}

\* Both adapters resolving to the first link field.
LinkOffset_same(a) == Link1Offset

LinkOffset(a) == IF a = 1 THEN Link1Offset ELSE Link2Offset
\* Adapter::get_link: address of the object -> address of its link field.
get_link(a, value) == value + LinkOffset(a)
\* Adapter::get_value (container_of!): address of a link -> its object.
get_value(a, link) == link - LinkOffset(a)

Adapters == {1, 2}
Links == {get_link(a, o) : a \in Adapters, o \in Obj}
\* The adapter of a root: the link field its list threads through.
AdapterOf(l) == IF l \in Lists THEN 1 ELSE 2

\* ------------------------------------------------------------------- state
VARIABLES
    head,    \* head[l]: SinglyLinkedList::head of list root l
    next,    \* next[p]: the `next` cell of the Link at address p
    raw,     \* raw[p]: into_raw calls minus from_raw calls for the object of link p
    cur,     \* the live CursorMut: [list, current], list = 0 when there is none
    last,    \* the last call: [op, arg, res, val]
    forgotten, \* history: links left behind by fast_clear, not yet force_unlinked
    pushed,  \* history: per list, the objects pushed and not yet popped, newest first
    snap,    \* history: the state before the first call of a two-call scenario
    it,      \* it[i]: the Iter in slot i: [list, current, n], list = 0 when there is none
    clones   \* clones[o]: owning handles to object o made by clone_pointer

core == <<head, next, raw, cur, last>>
vars == <<head, next, raw, cur, last, forgotten, pushed, snap, it, clones>>
\* The history variables, which the calls themselves never touch.
hist == <<forgotten, pushed, snap>>
\* The iterators and the cloned handles, which the list and cursor calls
\* leave alone.
rest == <<it, clones>>

NoCursor == [list |-> 0, current |-> None]
\* The slots for the Iter values the caller holds: an iterator and a clone of it.
IterIds == {1, 2}
\* n is history: the number of next() calls made on the iterator so far.
NoIter == [list |-> 0, current |-> None, n |-> 0]
NoSnap == [tag |-> "none", list |-> 0, arg |-> None,
           head |-> [l \in Roots |-> None],
           next |-> [p \in Links |-> UNLINKED_MARKER],
           raw |-> [p \in Links |-> 0], cur |-> NoCursor]

\* ------------------------------------------------------ Link and LinkOps
\* Link::new
LinkNew == UNLINKED_MARKER
\* A clone that copies the content of the original link.
link_clone_copies(l) == l

\* Clone for Link: `Link::new()`, whatever the original holds.
link_clone(l) == LinkNew
\* Link::is_linked / LinkOps::is_linked
is_linked(nx, ptr) == nx[ptr] # UNLINKED_MARKER
\* LinkOps::mark_unlinked
mark_unlinked(nx, ptr) == [nx EXCEPT ![ptr] = UNLINKED_MARKER]
\* LinkOps::next
next_of(nx, ptr) == nx[ptr]
\* LinkOps::set_next
set_next(nx, ptr, n) == [nx EXCEPT ![ptr] = n]

\* ------------------------------------------------- link-graph primitives
link_between(nx, ptr, prev, nxt) ==
    LET n1 == IF prev # None THEN set_next(nx, prev, ptr) ELSE nx
    IN  set_next(n1, ptr, nxt)

\* link_after that reads prev's successor after prev has been rewritten.
link_after_late_read(nx, ptr, prev) ==
    LET n1 == set_next(nx, prev, ptr)
    IN  set_next(n1, ptr, next_of(n1, prev))

link_after(nx, ptr, prev) == link_between(nx, ptr, prev, next_of(nx, prev))

\* replace_with without the final mark_unlinked.
replace_with_keeps_mark(nx, ptr, prev, new) ==
    LET n1 == IF prev # None THEN set_next(nx, prev, new) ELSE nx
    IN  set_next(n1, new, next_of(n1, ptr))

replace_with(nx, ptr, prev, new) ==
    LET n1 == IF prev # None THEN set_next(nx, prev, new) ELSE nx
        n2 == set_next(n1, new, next_of(n1, ptr))
    IN  mark_unlinked(n2, ptr)

\* remove that ends the chain at prev instead of bridging over ptr.
remove_cuts_tail(nx, ptr, prev) ==
    LET n1 == IF prev # None THEN set_next(nx, prev, None) ELSE nx
    IN  mark_unlinked(n1, ptr)

\* remove without the final mark_unlinked.
remove_keeps_mark(nx, ptr, prev) ==
    IF prev # None THEN set_next(nx, prev, next_of(nx, ptr)) ELSE nx

remove(nx, ptr, prev) ==
    LET n1 == IF prev # None THEN set_next(nx, prev, next_of(nx, ptr)) ELSE nx
    IN  mark_unlinked(n1, ptr)

\* splice that does not attach `next` behind the end of the chain.
splice_drops_rest(nx, start, end, prev, nxt) ==
    IF prev # None THEN set_next(nx, prev, start) ELSE nx

splice(nx, start, end, prev, nxt) ==
    LET n1 == set_next(nx, end, nxt)
    IN  IF prev # None THEN set_next(n1, prev, start) ELSE n1

\* ------------------------------------------------------------ PointerOps
\* PointerOps::into_raw: the owning handle is given up for a raw address.
into_raw(rw, p) == [rw EXCEPT ![p] = @ + 1]
\* PointerOps::from_raw: an owning handle is rebuilt from the raw address.
from_raw(rw, p) == [rw EXCEPT ![p] = @ - 1]

\* ------------------------------------------------------------- list root
\* node_from_value that panics without turning the node back into a pointer.
node_from_value_leaks(a, nx, rw, val) ==
    LET rw1 == into_raw(rw, get_link(a, val))
    IN  [panic |-> is_linked(nx, get_link(a, val)), raw |-> rw1,
         link |-> get_link(a, val)]

\* node_from_value without the is_linked check.
node_from_value_unchecked(a, nx, rw, val) ==
    [panic |-> FALSE, raw |-> into_raw(rw, get_link(a, val)),
     link |-> get_link(a, val)]

\* SinglyLinkedList::node_from_value: into_raw, then the is_linked check;
\* an already linked object is turned back into a pointer before the panic.
node_from_value(a, nx, rw, val) ==
    LET rw1 == into_raw(rw, get_link(a, val))
    IN  IF is_linked(nx, get_link(a, val))
        THEN [panic |-> TRUE, raw |-> from_raw(rw1, get_link(a, val)),
              link |-> get_link(a, val)]
        ELSE [panic |-> FALSE, raw |-> rw1, link |-> get_link(a, val)]

\* The loop of SinglyLinkedList::clear, from `current` on.
RECURSIVE clear_loop(_, _, _)
clear_loop(nx, rw, current) ==
    IF current = None
    THEN [next |-> nx, raw |-> rw]
    ELSE clear_loop(mark_unlinked(nx, current), from_raw(rw, current),
                    next_of(nx, current))

\* clear that unlinks and releases the first element only.
clear_first_only(h, l) ==
    LET x == h.head[l]
    IN  [head |-> [h.head EXCEPT ![l] = None],
         next |-> IF x = None THEN h.next ELSE mark_unlinked(h.next, x),
         raw |-> IF x = None THEN h.raw ELSE from_raw(h.raw, x),
         res |-> "Unit", val |-> None]

\* SinglyLinkedList::clear
clear(h, l) ==
    LET r == clear_loop(h.next, h.raw, h.head[l])
    IN  [head |-> [h.head EXCEPT ![l] = None], next |-> r.next, raw |-> r.raw,
         res |-> "Unit", val |-> None]

\* The walk of clear's loop that marks the element before reading its next.
RECURSIVE clear_trace_marks_first(_, _, _)
clear_trace_marks_first(nx, current, n) ==
    IF current = None THEN [done |-> TRUE, seen |-> <<>>]
    ELSE IF n = 0 \/ current \notin Links THEN [done |-> FALSE, seen |-> <<>>]
    ELSE LET nx1 == mark_unlinked(nx, current)
             r == clear_trace_marks_first(nx1, next_of(nx1, current), n - 1)
         IN  [done |-> r.done, seen |-> <<current>> \o r.seen]

\* The iterations of the loop of SinglyLinkedList::clear from `current` on,
\* cut after n of them: `seen` lists the x of each iteration in order, `done`
\* tells that the loop met None and ended within n iterations.
RECURSIVE clear_trace(_, _, _)
clear_trace(nx, current, n) ==
    IF current = None THEN [done |-> TRUE, seen |-> <<>>]
    ELSE IF n = 0 \/ current \notin Links THEN [done |-> FALSE, seen |-> <<>>]
    ELSE LET nxt == next_of(nx, current)
             r == clear_trace(mark_unlinked(nx, current), nxt, n - 1)
         IN  [done |-> r.done, seen |-> <<current>> \o r.seen]

\* A drop that forgets the head without clearing.
drop_list_forgets(h, l) ==
    [head |-> [h.head EXCEPT ![l] = None], next |-> h.next, raw |-> h.raw,
     res |-> "Unit", val |-> None]

\* Drop for SinglyLinkedList
drop_list(h, l) == clear(h, l)

\* fast_clear that marks the first element unlinked.
fast_clear_unlinks_head(h, l) ==
    [head |-> [h.head EXCEPT ![l] = None],
     next |-> IF h.head[l] = None THEN h.next
              ELSE mark_unlinked(h.next, h.head[l]),
     raw |-> h.raw, res |-> "Unit", val |-> None]

\* SinglyLinkedList::fast_clear
fast_clear(h, l) ==
    [head |-> [h.head EXCEPT ![l] = None], next |-> h.next, raw |-> h.raw,
     res |-> "Unit", val |-> None]

\* take that hands over the chain from the second element on.
take_drops_first(h, l, j) ==
    [head |-> [h.head EXCEPT ![j] = IF h.head[l] = None THEN None
                                    ELSE next_of(h.next, h.head[l]),
                             ![l] = None],
     next |-> h.next, raw |-> h.raw, res |-> "List", val |-> j]

\* take without `self.head = None`.
take_keeps_head(h, l, j) ==
    [head |-> [h.head EXCEPT ![j] = h.head[l]], next |-> h.next,
     raw |-> h.raw, res |-> "List", val |-> j]

\* SinglyLinkedList::take; the returned list is root j.
take(h, l, j) ==
    [head |-> [h.head EXCEPT ![j] = h.head[l], ![l] = None], next |-> h.next,
     raw |-> h.raw, res |-> "List", val |-> j]

\* ---------------------------------------------------------------- cursors
\* move_next that stays at the last element instead of moving to Null.
move_next_sticks(h, l, current) ==
    IF current # None
    THEN IF next_of(h.next, current) = None THEN current
         ELSE next_of(h.next, current)
    ELSE h.head[l]

\* Cursor::move_next / CursorMut::move_next: the new `current`.
move_next(h, l, current) ==
    IF current # None THEN next_of(h.next, current) ELSE h.head[l]

\* The successor of the cursor position: `if let Some(current) = self.current
\* { next(current) } else { self.list.head }`.
cursor_next(h, l, current) ==
    IF current # None THEN next_of(h.next, current) ELSE h.head[l]

\* peek_next that hands back the copy without moving it.
peek_next_in_place(h, l, current) == current

\* Cursor::peek_next / CursorMut::peek_next: a copy of the cursor, moved on
\* by one; the result is the copy's `current`.
peek_next(h, l, current) == move_next(h, l, current)

\* Cursor::get / CursorMut::get: `Some(get_value(self.current?))`.
get(a, current) ==
    IF current = None
    THEN [res |-> "None", val |-> None]
    ELSE [res |-> "Some", val |-> get_value(a, current)]

\* Cursor::is_null / CursorMut::is_null
is_null(current) == current = None

\* SinglyLinkedList::cursor
cursor(l) == [list |-> l, current |-> None]

\* SinglyLinkedList::front: a null cursor, moved on by one.
front(h, l) == move_next(h, l, cursor(l).current)

\* pointer_ops::clone_pointer_from_raw: one more owning handle to the object
\* at the raw address; the handle behind the raw address is not consumed.
clone_pointer_from_raw(cl, o) == [cl EXCEPT ![o] = @ + 1]

\* clone_pointer that takes the list's own handle instead of cloning it.
clone_pointer_takes(a, rw, cl, current) ==
    IF get(a, current).res = "None"
    THEN [raw |-> rw, clones |-> cl, res |-> "None", val |-> None]
    ELSE [raw |-> from_raw(rw, current),
          clones |-> clone_pointer_from_raw(cl, get(a, current).val),
          res |-> "Some", val |-> get(a, current).val]

\* Cursor::clone_pointer: `self.get()?`, then clone_pointer_from_raw.
clone_pointer(a, rw, cl, current) ==
    IF get(a, current).res = "None"
    THEN [raw |-> rw, clones |-> cl, res |-> "None", val |-> None]
    ELSE [raw |-> rw,
          clones |-> clone_pointer_from_raw(cl, get(a, current).val),
          res |-> "Some", val |-> get(a, current).val]

\* SinglyLinkedList::iter
iter(h, l) == [list |-> l, current |-> h.head[l], n |-> 0]

\* Iter::next that yields without moving on.
iter_next_stays(a, nx, itr) ==
    IF itr.current = None
    THEN [it |-> itr, res |-> "None", val |-> None]
    ELSE [it |-> [itr EXCEPT !.n = @ + 1],
          res |-> "Some", val |-> get_value(a, itr.current)]

\* Iter::next: `let current = self.current?`, move on, yield current's object.
iter_next(a, nx, itr) ==
    IF itr.current = None
    THEN [it |-> itr, res |-> "None", val |-> None]
    ELSE [it |-> [itr EXCEPT !.current = next_of(nx, itr.current), !.n = @ + 1],
          res |-> "Some", val |-> get_value(a, itr.current)]

\* Clone for Iter
iter_clone(itr) == [list |-> itr.list, current |-> itr.current, n |-> itr.n]

\* remove_next that unwraps the successor instead of returning None.
remove_next_unwraps(h, l, current) ==
    LET nxt == cursor_next(h, l, current)
    IN  IF nxt = None
        THEN [head |-> h.head, next |-> h.next, raw |-> h.raw,
              res |-> "Panic", val |-> None]
        ELSE [head |-> IF current = None
                       THEN [h.head EXCEPT ![l] = next_of(h.next, nxt)]
                       ELSE h.head,
              next |-> remove(h.next, nxt, current),
              raw |-> from_raw(h.raw, nxt),
              res |-> "Some", val |-> get_value(AdapterOf(l), nxt)]

\* remove_next that leaves the head alone when the cursor is at Null.
remove_next_keeps_head(h, l, current) ==
    LET nxt == cursor_next(h, l, current)
    IN  IF nxt = None
        THEN [head |-> h.head, next |-> h.next, raw |-> h.raw,
              res |-> "None", val |-> None]
        ELSE [head |-> h.head,
              next |-> remove(h.next, nxt, current),
              raw |-> from_raw(h.raw, nxt),
              res |-> "Some", val |-> get_value(AdapterOf(l), nxt)]

\* remove_next that hands back the address without rebuilding the handle.
remove_next_leaks(h, l, current) ==
    LET nxt == cursor_next(h, l, current)
    IN  IF nxt = None
        THEN [head |-> h.head, next |-> h.next, raw |-> h.raw,
              res |-> "None", val |-> None]
        ELSE [head |-> IF current = None
                       THEN [h.head EXCEPT ![l] = next_of(h.next, nxt)]
                       ELSE h.head,
              next |-> remove(h.next, nxt, current),
              raw |-> h.raw,
              res |-> "Some", val |-> get_value(AdapterOf(l), nxt)]

\* CursorMut::remove_next
remove_next(h, l, current) ==
    LET nxt == cursor_next(h, l, current)
    IN  IF nxt = None
        THEN [head |-> h.head, next |-> h.next, raw |-> h.raw,
              res |-> "None", val |-> None]
        ELSE [head |-> IF current = None
                       THEN [h.head EXCEPT ![l] = next_of(h.next, nxt)]
                       ELSE h.head,
              next |-> remove(h.next, nxt, current),
              raw |-> from_raw(h.raw, nxt),
              res |-> "Some", val |-> get_value(AdapterOf(l), nxt)]

\* replace_next_with that links val behind the last element instead of
\* handing it back.
replace_next_with_appends(h, l, current, val) ==
    LET nxt == cursor_next(h, l, current)
        r == node_from_value(AdapterOf(l), h.next, h.raw, val)
    IN  IF r.panic
        THEN [head |-> h.head, next |-> h.next, raw |-> r.raw,
              res |-> "Panic", val |-> None]
        ELSE IF nxt = None
        THEN [head |-> IF current = None
                       THEN [h.head EXCEPT ![l] = r.link]
                       ELSE h.head,
              next |-> link_between(h.next, r.link, current, None),
              raw |-> r.raw, res |-> "Err", val |-> val]
        ELSE [head |-> IF current = None
                       THEN [h.head EXCEPT ![l] = r.link]
                       ELSE h.head,
              next |-> replace_with(h.next, nxt, current, r.link),
              raw |-> from_raw(r.raw, nxt),
              res |-> "Ok", val |-> get_value(AdapterOf(l), nxt)]

\* replace_next_with that leaves the head alone when the cursor is at Null.
replace_next_with_keeps_head(h, l, current, val) ==
    LET nxt == cursor_next(h, l, current)
        r == node_from_value(AdapterOf(l), h.next, h.raw, val)
    IN  IF nxt = None
        THEN [head |-> h.head, next |-> h.next, raw |-> h.raw,
              res |-> "Err", val |-> val]
        ELSE IF r.panic
        THEN [head |-> h.head, next |-> h.next, raw |-> r.raw,
              res |-> "Panic", val |-> None]
        ELSE [head |-> h.head,
              next |-> replace_with(h.next, nxt, current, r.link),
              raw |-> from_raw(r.raw, nxt),
              res |-> "Ok", val |-> get_value(AdapterOf(l), nxt)]

\* CursorMut::replace_next_with
replace_next_with(h, l, current, val) ==
    LET nxt == cursor_next(h, l, current)
        r == node_from_value(AdapterOf(l), h.next, h.raw, val)
    IN  IF nxt = None
        THEN [head |-> h.head, next |-> h.next, raw |-> h.raw,
              res |-> "Err", val |-> val]
        ELSE IF r.panic
        THEN [head |-> h.head, next |-> h.next, raw |-> r.raw,
              res |-> "Panic", val |-> None]
        ELSE [head |-> IF current = None
                       THEN [h.head EXCEPT ![l] = r.link]
                       ELSE h.head,
              next |-> replace_with(h.next, nxt, current, r.link),
              raw |-> from_raw(r.raw, nxt),
              res |-> "Ok", val |-> get_value(AdapterOf(l), nxt)]

\* CursorMut::insert_after
insert_after(h, l, current, val) ==
    LET r == node_from_value(AdapterOf(l), h.next, h.raw, val)
    IN  IF r.panic
        THEN [head |-> h.head, next |-> h.next, raw |-> r.raw,
              res |-> "Panic", val |-> None]
        ELSE IF current # None
        THEN [head |-> h.head, next |-> link_after(h.next, r.link, current),
              raw |-> r.raw, res |-> "Unit", val |-> None]
        ELSE [head |-> [h.head EXCEPT ![l] = r.link],
              next |-> link_between(h.next, r.link, None, h.head[l]),
              raw |-> r.raw, res |-> "Unit", val |-> None]

\* The tail scan of splice_after: `while let Some(x) = next(tail) { tail = x }`.
RECURSIVE find_tail(_, _)
find_tail(nx, tail) ==
    IF next_of(nx, tail) # None THEN find_tail(nx, next_of(nx, tail)) ELSE tail

\* splice_after without `list.head = None`: the argument still refers to the
\* moved elements when it is dropped.
splice_after_keeps_source(h, l, current, j) ==
    LET nxt == cursor_next(h, l, current)
        hd == h.head[j]
        moved ==
            IF nxt # None
            THEN [head |-> IF current = None
                           THEN [h.head EXCEPT ![l] = hd]
                           ELSE h.head,
                  next |-> splice(h.next, hd, find_tail(h.next, hd), current, nxt)]
            ELSE IF current # None
            THEN [head |-> h.head, next |-> set_next(h.next, current, hd)]
            ELSE [head |-> [h.head EXCEPT ![l] = hd], next |-> h.next]
        kept ==
            IF hd = None
            THEN [head |-> h.head, next |-> h.next, raw |-> h.raw]
            ELSE [head |-> moved.head, next |-> moved.next, raw |-> h.raw]
    IN  drop_list(kept, j)

\* CursorMut::splice_after; the argument `list` is root j, moved into the
\* call and dropped when the call returns.
splice_after(h, l, current, j) ==
    LET nxt == cursor_next(h, l, current)
        hd == h.head[j]
        moved ==
            IF nxt # None
            THEN [head |-> IF current = None
                           THEN [h.head EXCEPT ![l] = hd]
                           ELSE h.head,
                  next |-> splice(h.next, hd, find_tail(h.next, hd), current, nxt)]
            ELSE IF current # None
            THEN [head |-> h.head, next |-> set_next(h.next, current, hd)]
            ELSE [head |-> [h.head EXCEPT ![l] = hd], next |-> h.next]
        \* `list.head = None` after the three cases
        emptied ==
            IF hd = None
            THEN [head |-> h.head, next |-> h.next, raw |-> h.raw]
            ELSE [head |-> [moved.head EXCEPT ![j] = None], next |-> moved.next,
                  raw |-> h.raw]
    IN  drop_list(emptied, j)

\* A memory cell of the link graph: the next cell of the Link at address
\* `at`, or the head cell of list root `at`.
NextCell(p) == [kind |-> "next", at |-> p]
HeadCell(l) == [kind |-> "head", at |-> l]
Write(c, v) == [cell |-> c, value |-> v]

\* The links whose next cell the tail scan of splice_after reads, in order:
\* `tail` and every link after it up to the one whose next is None.
RECURSIVE tail_scan(_, _)
tail_scan(nx, tail) ==
    <<tail>> \o (IF next_of(nx, tail) # None
                 THEN tail_scan(nx, next_of(nx, tail))
                 ELSE <<>>)

\* The accesses of a splice_after that scans for the tail of `list` whether
\* or not the cursor has a successor.
splice_after_accesses_always_scans(h, l, current, j) ==
    LET hd == h.head[j]
        nxt == cursor_next(h, l, current)
        at_cursor == IF current # None THEN NextCell(current) ELSE HeadCell(l)
        dropped == [reads |-> <<HeadCell(j)>>,
                    writes |-> <<Write(HeadCell(j), None)>>]
    IN  IF hd = None
        THEN [reads |-> <<HeadCell(j)>> \o dropped.reads,
              writes |-> dropped.writes]
        ELSE LET scan == tail_scan(h.next, hd)
                 tail == scan[Len(scan)]
             IN  [reads |-> <<HeadCell(j), at_cursor>>
                            \o [i \in 1..Len(scan) |-> NextCell(scan[i])]
                            \o dropped.reads,
                  writes |-> <<Write(NextCell(tail), nxt),
                               Write(at_cursor, hd),
                               Write(HeadCell(j), None)>>
                             \o dropped.writes]

\* The reads and writes of next and head cells that CursorMut::splice_after
\* performs, in program order, the drop of its argument `list` (root j) at
\* the end of the call included.
splice_after_accesses(h, l, current, j) ==
    LET hd == h.head[j]
        nxt == cursor_next(h, l, current)
        at_cursor == IF current # None THEN NextCell(current) ELSE HeadCell(l)
        \* Drop for SinglyLinkedList on the emptied argument: clear() reads the
        \* head, sets it to None and finds nothing to walk.
        dropped == [reads |-> <<HeadCell(j)>>,
                    writes |-> <<Write(HeadCell(j), None)>>]
    IN  IF hd = None
        THEN [reads |-> <<HeadCell(j)>> \o dropped.reads,
              writes |-> dropped.writes]
        ELSE IF nxt # None
        THEN LET scan == tail_scan(h.next, hd)
                 tail == scan[Len(scan)]
             IN  [reads |-> <<HeadCell(j), at_cursor>>
                            \o [i \in 1..Len(scan) |-> NextCell(scan[i])]
                            \o dropped.reads,
                  \* splice: set_next(end, next), then set_next(prev, start);
                  \* `self.list.head = list.head` for a cursor at Null
                  writes |-> <<Write(NextCell(tail), nxt),
                               Write(at_cursor, hd),
                               Write(HeadCell(j), None)>>
                             \o dropped.writes]
        ELSE [reads |-> <<HeadCell(j), at_cursor>> \o dropped.reads,
              writes |-> <<Write(at_cursor, hd), Write(HeadCell(j), None)>>
                         \o dropped.writes]

\* The heap after the writes ws, applied in order.
RECURSIVE apply_writes(_, _)
apply_writes(h, ws) ==
    IF ws = <<>> THEN h
    ELSE LET w == Head(ws)
         IN  apply_writes(
                 IF w.cell.kind = "next"
                 THEN [h EXCEPT !.next[w.cell.at] = w.value]
                 ELSE [h EXCEPT !.head[w.cell.at] = w.value],
                 Tail(ws))

\* split_after that does not cut the chain after `current`.
split_after_keeps_next(h, l, current, j) ==
    IF current # None
    THEN [head |-> [h.head EXCEPT ![j] = next_of(h.next, current)],
          next |-> h.next, raw |-> h.raw, res |-> "List", val |-> j]
    ELSE [head |-> [h.head EXCEPT ![j] = h.head[l], ![l] = None],
          next |-> h.next, raw |-> h.raw, res |-> "List", val |-> j]

\* split_after that returns the chain from `current` itself on.
split_after_from_current(h, l, current, j) ==
    IF current # None
    THEN [head |-> [h.head EXCEPT ![j] = current],
          next |-> set_next(h.next, current, None),
          raw |-> h.raw, res |-> "List", val |-> j]
    ELSE [head |-> [h.head EXCEPT ![j] = h.head[l], ![l] = None],
          next |-> h.next, raw |-> h.raw, res |-> "List", val |-> j]

\* CursorMut::split_after; the returned list is root j.
split_after(h, l, current, j) ==
    IF current # None
    THEN [head |-> [h.head EXCEPT ![j] = next_of(h.next, current)],
          next |-> set_next(h.next, current, None),
          raw |-> h.raw, res |-> "List", val |-> j]
    ELSE [head |-> [h.head EXCEPT ![j] = h.head[l], ![l] = None],
          next |-> h.next, raw |-> h.raw, res |-> "List", val |-> j]

\* SinglyLinkedList::cursor_mut
cursor_mut(l) == [list |-> l, current |-> None]

\* SinglyLinkedList::push_front
push_front(h, l, val) == insert_after(h, l, cursor_mut(l).current, val)

\* pop_front with the cursor moved to the first element before the removal.
pop_front_at_front(h, l) == remove_next(h, l, move_next(h, l, cursor_mut(l).current))

\* SinglyLinkedList::pop_front
pop_front(h, l) == remove_next(h, l, cursor_mut(l).current)

\* force_unlink that leaves the next cell as it is.
force_unlink_noop(nx, p) == nx

\* IntoIterator for SinglyLinkedList: `IntoIter { list: self }`; the iterator
\* is the list root itself, moved.
into_iter(l) == l

\* IntoIter::next that takes the element behind the first one.
into_iter_next_second(h, l) == pop_front_at_front(h, l)

\* IntoIter::next
into_iter_next(h, l) == pop_front(h, l)

\* An IntoIter whose list is forgotten instead of dropped.
into_iter_drop_forgets(h, l) == drop_list_forgets(h, l)

\* The drop of an IntoIter: its only field, `list`, is dropped.
into_iter_drop(h, l) == drop_list(h, l)

\* Link::force_unlink
force_unlink(nx, p) == [nx EXCEPT ![p] = UNLINKED_MARKER]

\* The links reachable from the head of list l (at most n of them).
RECURSIVE Reach(_, _, _)
Reach(nx, p, n) ==
    IF p \notin Links \/ n = 0 THEN {} ELSE {p} \cup Reach(nx, nx[p], n - 1)

Members(l) == Reach(next, head[l], Cardinality(Links))
AllMembers == UNION {Members(l) : l \in Roots}

\* ----------------------------------------------------------------- steps
Heap == [head |-> head, next |-> next, raw |-> raw]

Call(op, arg, r) ==
    /\ head' = r.head
    /\ next' = r.next
    /\ raw' = r.raw
    /\ last' = [op |-> op, arg |-> arg, res |-> r.res, val |-> r.val]

\* The caller can hand in a pointer to val (bound on the into_raw count).
CanGive(l, val) == raw[get_link(AdapterOf(l), val)] < MaxRaw

\* `let mut cur = l.cursor_mut()`: list l is mutably borrowed from now on.
CursorMutNew(l) ==
    /\ cur.list = 0
    /\ cur' = cursor_mut(l)
    /\ last' = [op |-> "cursor_mut", arg |-> l, res |-> "Unit", val |-> None]
    /\ UNCHANGED <<head, next, raw>>

\* The cursor goes out of scope.
CursorDrop ==
    /\ cur.list # 0
    /\ cur' = NoCursor
    /\ last' = [op |-> "cursor_drop", arg |-> None, res |-> "Unit", val |-> None]
    /\ UNCHANGED <<head, next, raw>>

MoveNext ==
    /\ cur.list # 0
    /\ cur' = [cur EXCEPT !.current = move_next(Heap, cur.list, cur.current)]
    /\ last' = [op |-> "move_next", arg |-> None, res |-> "Unit", val |-> None]
    /\ UNCHANGED <<head, next, raw>>

\* insert_after that moves the cursor onto the inserted element.
InsertAfter_moves(val) ==
    /\ cur.list # 0
    /\ CanGive(cur.list, val)
    /\ Call("insert_after", val, insert_after(Heap, cur.list, cur.current, val))
    /\ cur' = IF last'.res = "Panic" THEN cur
              ELSE [cur EXCEPT !.current = get_link(AdapterOf(cur.list), val)]

InsertAfter(val) ==
    /\ cur.list # 0
    /\ CanGive(cur.list, val)
    /\ Call("insert_after", val, insert_after(Heap, cur.list, cur.current, val))
    /\ UNCHANGED cur

RemoveNext ==
    /\ cur.list # 0
    /\ Call("remove_next", None, remove_next(Heap, cur.list, cur.current))
    /\ UNCHANGED cur

ReplaceNextWith(val) ==
    /\ cur.list # 0
    /\ CanGive(cur.list, val)
    /\ Call("replace_next_with", val,
            replace_next_with(Heap, cur.list, cur.current, val))
    /\ UNCHANGED cur

\* cur.splice_after(other): `other` is list root j, given away by value.
SpliceAfter(j) ==
    /\ cur.list # 0
    /\ j # cur.list
    /\ AdapterOf(j) = AdapterOf(cur.list)
    /\ Call("splice_after", j, splice_after(Heap, cur.list, cur.current, j))
    /\ UNCHANGED cur

\* `let other = cur.split_after()`: the new root is kept in the free slot j.
SplitAfter(j) ==
    /\ cur.list # 0
    /\ j # cur.list
    /\ AdapterOf(j) = AdapterOf(cur.list)
    /\ head[j] = None
    /\ Call("split_after", j, split_after(Heap, cur.list, cur.current, j))
    /\ UNCHANGED cur

PushFront(l, val) ==
    /\ cur.list # l
    /\ CanGive(l, val)
    /\ Call("push_front", val, push_front(Heap, l, val))
    /\ UNCHANGED cur

PopFront(l) ==
    /\ cur.list # l
    /\ Call("pop_front", l, pop_front(Heap, l))
    /\ UNCHANGED cur

Clear(l) ==
    /\ cur.list # l
    /\ Call("clear", l, clear(Heap, l))
    /\ UNCHANGED cur

FastClear(l) ==
    /\ cur.list # l
    /\ forgotten' = forgotten \cup Members(l)
    /\ Call("fast_clear", l, fast_clear(Heap, l))
    /\ UNCHANGED cur

\* `let other = l.take()`: the new root is kept in the free slot j.
Take(l, j) ==
    /\ cur.list # l
    /\ cur.list # j
    /\ j # l
    /\ AdapterOf(j) = AdapterOf(l)
    /\ head[j] = None
    /\ Call("take", l, take(Heap, l, j))
    /\ UNCHANGED cur

\* unsafe Link::force_unlink, under its safety condition: the link is in no list.
ForceUnlink(p) ==
    /\ p \notin AllMembers
    /\ is_linked(next, p)
    /\ next' = force_unlink(next, p)
    /\ last' = [op |-> "force_unlink", arg |-> p, res |-> "Unit", val |-> None]
    /\ forgotten' = forgotten \ {p}
    /\ UNCHANGED <<head, raw, cur>>

\* Calls that only read: the result is recorded, nothing else changes.
Query(op, arg, res, val) ==
    /\ last' = [op |-> op, arg |-> arg, res |-> res, val |-> val]
    /\ UNCHANGED <<head, next, raw, cur>>

PeekNext ==
    /\ cur.list # 0
    /\ Query("peek_next", None, "Cursor", peek_next(Heap, cur.list, cur.current))

Get ==
    /\ cur.list # 0
    /\ Query("get", None, get(AdapterOf(cur.list), cur.current).res,
             get(AdapterOf(cur.list), cur.current).val)

IsNull ==
    /\ cur.list # 0
    /\ Query("is_null", None, IF is_null(cur.current) THEN "true" ELSE "false", None)

Front(l) ==
    /\ cur.list # l
    /\ Query("front", l, "Cursor", front(Heap, l))

\* The list root l goes out of scope.
DropList(l) ==
    /\ cur.list # l
    /\ Call("drop", l, drop_list(Heap, l))
    /\ UNCHANGED cur

\* `let dst = src.clone()` on an Obj (derive(Clone)): each Link field of the
\* new object is the clone of the original's.  dst stands for the storage of
\* the new object: it is in no list and no handle to it has been given away.
CloneObj(src, dst) ==
    /\ dst # src
    /\ \A a \in Adapters :
          /\ ~is_linked(next, get_link(a, dst))
          /\ raw[get_link(a, dst)] = 0
    /\ next' = [p \in Links |->
                  IF p = get_link(1, dst) THEN link_clone(next[get_link(1, src)])
                  ELSE IF p = get_link(2, dst) THEN link_clone(next[get_link(2, src)])
                  ELSE next[p]]
    /\ last' = [op |-> "clone", arg |-> src, res |-> "Obj", val |-> dst]
    /\ UNCHANGED <<head, raw, cur>>

\* No iterator is alive, no cloned handle is held, no scenario is under way.
Idle ==
    /\ snap.tag = "none"
    /\ \A i \in IterIds : it[i].list = 0
    /\ \A o \in Obj : clones[o] = 0

\* `let mut i1 = l.iter()`: list l is borrowed until the iterators are gone.
IterNew(l) ==
    /\ Idle
    /\ cur.list # l
    /\ it' = [it EXCEPT ![1] = iter(Heap, l)]
    /\ last' = [op |-> "iter", arg |-> l, res |-> "Iter", val |-> None]
    /\ UNCHANGED <<head, next, raw, cur, hist, clones>>

\* `let mut i2 = i1.clone()`
IterClone ==
    /\ it[1].list # 0
    /\ it[2].list = 0
    /\ it' = [it EXCEPT ![2] = iter_clone(it[1])]
    /\ last' = [op |-> "iter_clone", arg |-> 1, res |-> "Iter", val |-> None]
    /\ UNCHANGED <<head, next, raw, cur, hist, clones>>

\* i.next() on the iterator in slot i
IterNext(i) ==
    /\ it[i].list # 0
    /\ LET r == iter_next(AdapterOf(it[i].list), next, it[i])
       IN  /\ it' = [it EXCEPT ![i] = r.it]
           /\ last' = [op |-> "iter_next", arg |-> i, res |-> r.res, val |-> r.val]
    /\ UNCHANGED <<head, next, raw, cur, hist, clones>>

\* The iterators go out of scope.
IterDrop ==
    /\ it[1].list # 0
    /\ it' = [i \in IterIds |-> NoIter]
    /\ last' = [op |-> "iter_drop", arg |-> None, res |-> "Unit", val |-> None]
    /\ UNCHANGED <<head, next, raw, cur, hist, clones>>

\* cur.as_cursor().clone_pointer()
ClonePointer ==
    /\ snap.tag = "none"
    /\ \A i \in IterIds : it[i].list = 0
    /\ cur.list # 0
    /\ \A o \in Obj : clones[o] < MaxClones
    /\ LET r == clone_pointer(AdapterOf(cur.list), raw, clones, cur.current)
       IN  /\ raw' = r.raw
           /\ clones' = r.clones
           /\ last' = [op |-> "clone_pointer", arg |-> None, res |-> r.res,
                       val |-> r.val]
    /\ UNCHANGED <<head, next, cur, hist, it>>

\* The caller drops a handle it got from clone_pointer.
PointerDrop(o) ==
    /\ clones[o] > 0
    /\ clones' = [clones EXCEPT ![o] = @ - 1]
    /\ last' = [op |-> "pointer_drop", arg |-> o, res |-> "Unit", val |-> None]
    /\ UNCHANGED <<head, next, raw, cur, hist, it>>

Init ==
    /\ head = [l \in Roots |-> None]
    /\ next = [p \in Links |-> LinkNew]
    /\ raw = [p \in Links |-> 0]
    /\ cur = NoCursor
    /\ last = [op |-> "new", arg |-> None, res |-> "Unit", val |-> None]
    /\ forgotten = {}
    /\ pushed = [l \in Lists |-> <<>>]
    /\ snap = NoSnap
    /\ it = [i \in IterIds |-> NoIter]
    /\ clones = [o \in Obj |-> 0]

Next ==
    \/ \E l \in Lists : CursorMutNew(l) /\ UNCHANGED <<hist, rest>>
    \/ CursorDrop /\ UNCHANGED <<hist, rest>>
    \/ MoveNext /\ UNCHANGED <<hist, rest>>
    \/ \E val \in Obj : InsertAfter(val) /\ UNCHANGED <<hist, rest>>
    \/ RemoveNext /\ UNCHANGED <<hist, rest>>
    \/ \E val \in Obj : ReplaceNextWith(val) /\ UNCHANGED <<hist, rest>>
    \/ \E j \in Lists : SpliceAfter(j) /\ UNCHANGED <<hist, rest>>
    \/ \E j \in Lists : SplitAfter(j) /\ UNCHANGED <<hist, rest>>
    \/ \E l \in Lists, val \in Obj : PushFront(l, val) /\ UNCHANGED <<hist, rest>>
    \/ \E l \in Lists : PopFront(l) /\ UNCHANGED <<hist, rest>>
    \/ \E l \in Lists : Clear(l) /\ UNCHANGED <<hist, rest>>
    \/ \E l, j \in Lists : Take(l, j) /\ UNCHANGED <<hist, rest>>

Spec == Init /\ [][Next]_vars

\* The same program with the escape hatch: fast_clear and force_unlink.
NextEscape ==
    \/ Next
    \/ \E l \in Lists : FastClear(l) /\ UNCHANGED <<pushed, snap, rest>>
    \/ \E p \in Links : ForceUnlink(p) /\ UNCHANGED <<pushed, snap, rest>>

SpecEscape == Init /\ [][NextEscape]_vars

\* All of the above together with the calls that only read.
NextAll ==
    \/ NextEscape
    \/ PeekNext /\ UNCHANGED <<hist, rest>>
    \/ Get /\ UNCHANGED <<hist, rest>>
    \/ IsNull /\ UNCHANGED <<hist, rest>>
    \/ \E l \in Lists : Front(l) /\ UNCHANGED <<hist, rest>>

SpecAll == Init /\ [][NextAll]_vars

\* The safe calls on the roots of both adapters: the calls of Next, whose
\* cursor calls follow the cursor onto List2, and the list calls on List2.
NextMulti ==
    \/ Next
    \/ CursorMutNew(List2) /\ UNCHANGED <<hist, rest>>
    \/ \E val \in Obj : PushFront(List2, val) /\ UNCHANGED <<hist, rest>>
    \/ PopFront(List2) /\ UNCHANGED <<hist, rest>>
    \/ Clear(List2) /\ UNCHANGED <<hist, rest>>

SpecMulti == Init /\ [][NextMulti]_vars

\* The calls of NextMulti and the drop of a list root; the slot of a dropped
\* root is reused for a new, empty list.
NextOwn ==
    \/ NextMulti
    \/ \E l \in Roots : DropList(l) /\ UNCHANGED <<hist, rest>>

SpecOwn == Init /\ [][NextOwn]_vars

\* The safe calls together with the calls that only read: the reading cursor
\* calls, iterators over a list and clone_pointer.  While an iterator is alive
\* or a cloned handle is held, only iterator and handle steps are taken.
NextRead ==
    \/ Idle /\ Next
    \/ Idle /\ PeekNext /\ UNCHANGED <<hist, rest>>
    \/ Idle /\ Get /\ UNCHANGED <<hist, rest>>
    \/ Idle /\ IsNull /\ UNCHANGED <<hist, rest>>
    \/ \E l \in Lists : Idle /\ Front(l) /\ UNCHANGED <<hist, rest>>
    \/ \E l \in Lists : IterNew(l)
    \/ IterClone
    \/ \E i \in IterIds : IterNext(i)
    \/ IterDrop
    \/ ClonePointer
    \/ \E o \in Obj : PointerDrop(o)

SpecRead == Init /\ [][NextRead]_vars

\* ------------------------------------------------------------ observers
\* The links met from p on by following next, at most n of them.
RECURSIVE Chain(_, _, _)
Chain(nx, p, n) ==
    IF p \notin Links \/ n = 0 THEN <<>> ELSE <<p>> \o Chain(nx, nx[p], n - 1)

\* Where following next from p stops: None for a chain that ends, a link
\* address for one that runs into a cycle.
RECURSIVE EndPoint(_, _, _)
EndPoint(nx, p, n) ==
    IF p \notin Links \/ n = 0 THEN p ELSE EndPoint(nx, nx[p], n - 1)

Fuel == Cardinality(Links) + 1

\* The objects of list l, front to back, in the heap (hd, nx).
ElemsOf(hd, nx, l) ==
    LET c == Chain(nx, hd[l], Fuel)
    IN  [i \in 1..Len(c) |-> get_value(AdapterOf(l), c[i])]

Elems(l) == ElemsOf(head, next, l)

\* The number of elements of list l before the cursor's successor: 0 for the
\* Null position, i for a cursor at the i-th element.
PosOf(hd, nx, l, current) ==
    IF current = None THEN 0
    ELSE LET c == Chain(nx, hd[l], Fuel)
         IN  CHOOSE i \in 1..Len(c) : c[i] = current

Range(s) == {s[i] : i \in 1..Len(s)}

\* The live cursor is at Null or at a member of its list.
CursorValid == cur.list # 0 /\ cur.current # None => cur.current \in Members(cur.list)

\* ------------------------------------------------ push_front / pop_front
\* Runs of push_front and pop_front alone, with the history of what was
\* pushed and not yet popped.
LifoPush(l, val) ==
    /\ PushFront(l, val)
    /\ pushed' = IF last'.res = "Panic" THEN pushed
                 ELSE [pushed EXCEPT ![l] = <<val>> \o @]
    /\ UNCHANGED <<forgotten, snap, rest>>

LifoPop(l) ==
    /\ PopFront(l)
    /\ pushed' = IF pushed[l] = <<>> THEN pushed
                 ELSE [pushed EXCEPT ![l] = Tail(@)]
    /\ UNCHANGED <<forgotten, snap, rest>>

NextLifo ==
    \/ \E l \in Lists, val \in Obj : LifoPush(l, val)
    \/ \E l \in Lists : LifoPop(l)

SpecLifo == Init /\ [][NextLifo]_vars

\* What a pop_front step on list l returns, against the history.
C1_PopStep(l) ==
    (last'.op = "pop_front" /\ last'.arg = l /\ LifoPop(l)) =>
        /\ (last'.res = "None") <=> (pushed[l] = <<>>)
        /\ pushed[l] # <<>> => last'.res = "Some" /\ last'.val = Head(pushed[l])

\* C1: every pop_front returns the most recently pushed object that has not
\* been popped yet, and returns None exactly when nothing pushed is left.
C1_Lifo == [][\A l \in Lists : C1_PopStep(l)]_vars

\* A pop that returned an object while an older pushed object is still held.
C1_Witness ==
    /\ last.op = "pop_front"
    /\ last.res = "Some"
    /\ pushed[last.arg] # <<>>
    /\ Elems(last.arg) = pushed[last.arg]

\* ------------------------------------------------- linked <=> reachable
Linked(o) == is_linked(next, get_link(1, o))
IsMember(o) == get_link(1, o) \in AllMembers

\* C2 as stated: in every reachable state an object reports linked iff it is
\* reachable from the head of some list.
C2_LinkedIffReachable == \A o \in Obj : Linked(o) <=> IsMember(o)

\* C2, amended: an object reachable from a head reports linked, and an object
\* that reports linked is reachable from a head unless fast_clear left it
\* behind and force_unlink has not been called on it since.
C2_LinkedIffReachableOrForgotten ==
    \A o \in Obj : Linked(o) <=> (IsMember(o) \/ get_link(1, o) \in forgotten)

\* fast_clear has left a linked object behind while another list has members.
C2_Witness ==
    /\ \E o \in Obj : Linked(o) /\ ~IsMember(o) /\ get_link(1, o) \in forgotten
    /\ \E o \in Obj : Linked(o) /\ IsMember(o)
    /\ \E o \in Obj : ~Linked(o) /\ raw[get_link(1, o)] > 0

\* ------------------------------------------- linked state after one call
LinkedIn(nx, o) == is_linked(nx, get_link(1, o))
\* Every link other than link1 of the objects in S keeps its linked state.
OthersKeep(S) ==
    \A p \in Links \ {get_link(1, o) : o \in S} :
        is_linked(next', p) <=> is_linked(next, p)

\* The three kinds of call C3 speaks of, as steps.
C3_Insert(val) ==
    (/\ last'.op \in {"insert_after", "push_front"}
     /\ last'.arg = val
     /\ InsertAfter(val) \/ \E l \in Lists : PushFront(l, val)) =>
        IF last'.res = "Panic"
        THEN OthersKeep({})
        ELSE LinkedIn(next', val) /\ OthersKeep({val})

C3_Remove ==
    (/\ last'.op \in {"remove_next", "pop_front"}
     /\ RemoveNext \/ \E l \in Lists : PopFront(l)) =>
        IF last'.res = "None"
        THEN OthersKeep({})
        ELSE ~LinkedIn(next', last'.val) /\ OthersKeep({last'.val})

C3_Replace(val) ==
    (last'.op = "replace_next_with" /\ last'.arg = val /\ ReplaceNextWith(val)) =>
        IF last'.res = "Ok"
        THEN /\ ~LinkedIn(next', last'.val)
             /\ LinkedIn(next', val)
             /\ OthersKeep({val, last'.val})
        ELSE OthersKeep({})

\* C3: after insert_after / push_front the inserted object is linked, after
\* remove_next / pop_front the returned object is unlinked, after a successful
\* replace_next_with the displaced object is unlinked and the new one linked,
\* and no other link changes its linked state in any of these calls.
C3_LinkedAfterCall ==
    [][/\ \A val \in Obj : C3_Insert(val) /\ C3_Replace(val)
       /\ C3_Remove]_vars

\* A successful replace_next_with next to further members.
C3_Witness ==
    /\ last.op = "replace_next_with"
    /\ last.res = "Ok"
    /\ ~Linked(last.val)
    /\ Linked(last.arg)
    /\ Len(Elems(cur.list)) > 1

\* ------------------------------------------------------ shape of the graph
\* C4: no link is reachable from two heads, no link occurs twice in a chain,
\* and every chain from a head is acyclic and ends at end-of-chain.
C4_ChainsDisjointAcyclic ==
    /\ \A l1, l2 \in Lists : l1 # l2 => Members(l1) \cap Members(l2) = {}
    /\ \A l \in Lists :
        /\ Cardinality(Members(l)) = Len(Chain(next, head[l], Fuel))
        /\ EndPoint(next, head[l], Fuel) = None

\* Two non-empty lists after a split, one of them with more than one element.
C4_Witness ==
    /\ \A l \in Lists : head[l] # None
    /\ \E l \in Lists : Len(Elems(l)) > 1
    /\ last.op = "split_after"

\* ------------------------------------------- inserting a linked object
\* An insertion step of val while val's link reports linked.
C5_Rejects(val) ==
    (/\ last'.op \in {"insert_after", "push_front"}
     /\ last'.arg = val
     /\ is_linked(next, get_link(1, val))
     /\ InsertAfter(val) \/ \E l \in Lists : PushFront(l, val)) =>
        /\ last'.res = "Panic"
        /\ head' = head
        /\ next' = next
        /\ raw' = raw

\* C5: insert_after or push_front of an object whose link reports linked
\* panics, with every head and every next cell as before the call and the
\* object's handle rebuilt (as many from_raw as into_raw).
C5_LinkedInsertPanics == [][\A val \in Obj : C5_Rejects(val)]_vars

\* A panic on inserting, through a cursor, a member of the other list.
C5_Witness ==
    /\ last.op = "insert_after"
    /\ last.res = "Panic"
    /\ cur.list # 0
    /\ get_link(1, last.arg) \notin Members(cur.list)
    /\ IsMember(last.arg)
    /\ raw[get_link(1, last.arg)] = 1

\* ------------------------------------------------- two calls in a row
Snapshot(tag, l, arg) ==
    [tag |-> tag, list |-> l, arg |-> arg, head |-> head, next |-> next,
     raw |-> raw, cur |-> cur]

\* l.push_front(x) with x unlinked, then at once l.pop_front().
RtPush(l, val) ==
    /\ snap.tag = "none"
    /\ ~is_linked(next, get_link(AdapterOf(l), val))
    /\ PushFront(l, val)
    /\ snap' = Snapshot("pushed", l, val)
    /\ UNCHANGED <<forgotten, pushed, rest>>

RtPop ==
    /\ snap.tag = "pushed"
    /\ PopFront(snap.list)
    /\ snap' = [snap EXCEPT !.tag = "popped"]
    /\ UNCHANGED <<forgotten, pushed, rest>>

\* `let other = cur.split_after()`, then at once cur.splice_after(other).
SsSplit(j) ==
    /\ snap.tag = "none"
    /\ SplitAfter(j)
    /\ snap' = Snapshot("split", cur.list, j)
    /\ UNCHANGED <<forgotten, pushed, rest>>

SsSplice ==
    /\ snap.tag = "split"
    /\ SpliceAfter(snap.arg)
    /\ snap' = [snap EXCEPT !.tag = "spliced"]
    /\ UNCHANGED <<forgotten, pushed, rest>>

\* l.clear(), with the state before the call kept.
SnClear(l) ==
    /\ snap.tag = "none"
    /\ Clear(l)
    /\ snap' = Snapshot("cleared", l, None)
    /\ UNCHANGED <<forgotten, pushed, rest>>

\* The root l goes out of scope, with the state before kept.
SnDrop(l) ==
    /\ snap.tag = "none"
    /\ DropList(l)
    /\ snap' = Snapshot("dropped", l, None)
    /\ UNCHANGED <<forgotten, pushed, rest>>

\* `let mut i = l.into_iter()`, then i.next() over and over; snap.arg counts
\* the elements yielded.
IntoIterNew(l) ==
    /\ snap.tag = "none"
    /\ cur.list # l
    /\ snap' = Snapshot("into_iter", into_iter(l), 0)
    /\ last' = [op |-> "into_iter", arg |-> l, res |-> "IntoIter", val |-> None]
    /\ UNCHANGED <<head, next, raw, cur, forgotten, pushed, rest>>

IntoIterNext ==
    /\ snap.tag = "into_iter"
    /\ Call("into_iter_next", snap.list, into_iter_next(Heap, snap.list))
    /\ snap' = [snap EXCEPT !.arg = IF last'.res = "Some" THEN @ + 1 ELSE @]
    /\ UNCHANGED <<cur, forgotten, pushed, rest>>

\* The IntoIter goes out of scope, after any number of next() calls.
IntoIterDrop ==
    /\ snap.tag = "into_iter"
    /\ Call("into_iter_drop", snap.list, into_iter_drop(Heap, snap.list))
    /\ snap' = [snap EXCEPT !.tag = "into_iter_dropped"]
    /\ UNCHANGED <<cur, forgotten, pushed, rest>>

\* The safe calls, closed by the life of one consuming iterator.
NextIntoIter ==
    \/ snap.tag = "none" /\ Next
    \/ \E l \in Lists : IntoIterNew(l)
    \/ IntoIterNext
    \/ IntoIterDrop

SpecIntoIter == Init /\ [][NextIntoIter]_vars

\* `let dst = src.clone()`, then dst is pushed onto the list src is in (onto
\* any list when src is in none).
SnClone(src, dst) ==
    /\ snap.tag = "none"
    /\ CloneObj(src, dst)
    /\ snap' = Snapshot("cloned",
                        IF \E l \in Lists : get_link(1, src) \in Members(l)
                        THEN CHOOSE l \in Lists : get_link(1, src) \in Members(l)
                        ELSE 0,
                        src)
    /\ UNCHANGED <<forgotten, pushed, rest>>

SnPushClone(l) ==
    /\ snap.tag = "cloned"
    /\ snap.list \in {0, l}
    /\ PushFront(l, last.val)
    /\ snap' = [snap EXCEPT !.tag = "clone_pushed"]
    /\ UNCHANGED <<forgotten, pushed, rest>>

NextPairs ==
    \/ snap.tag = "none" /\ Next
    \/ \E l \in Lists : SnClear(l)
    \/ \E l \in Lists : SnDrop(l)
    \/ \E l \in Lists : IntoIterNew(l)
    \/ IntoIterNext
    \/ \E src, dst \in Obj : SnClone(src, dst)
    \/ \E l \in Lists : SnPushClone(l)
    \/ \E l \in Lists, val \in Obj : RtPush(l, val)
    \/ RtPop
    \/ \E j \in Lists : SsSplit(j)
    \/ SsSplice

SpecPairs == Init /\ [][NextPairs]_vars

\* cur.splice_after(other), with the state before the call kept; `other` is
\* dropped inside the call.
SnSplice(j) ==
    /\ snap.tag = "none"
    /\ SpliceAfter(j)
    /\ snap' = Snapshot("spliced_in", cur.list, j)
    /\ UNCHANGED <<forgotten, pushed, rest>>

\* `let moved = l.take()`, with the state before the call kept.
SnTake(l, j) ==
    /\ snap.tag = "none"
    /\ Take(l, j)
    /\ snap' = Snapshot("taken", l, j)
    /\ UNCHANGED <<forgotten, pushed, rest>>

\* `let moved = cur.split_after()` with the cursor at Null.
SnSplitNull(j) ==
    /\ snap.tag = "none"
    /\ cur.current = None
    /\ SplitAfter(j)
    /\ snap' = Snapshot("split_null", cur.list, j)
    /\ UNCHANGED <<forgotten, pushed, rest>>

\* The cursor of the split goes out of scope.
SnRelease ==
    /\ snap.tag = "split_null"
    /\ CursorDrop
    /\ snap' = [snap EXCEPT !.tag = "taken"]
    /\ UNCHANGED <<forgotten, pushed, rest>>

\* The emptied list goes out of scope.
SnDropEmptied ==
    /\ snap.tag = "taken"
    /\ DropList(snap.list)
    /\ snap' = [snap EXCEPT !.tag = "emptied_dropped"]
    /\ UNCHANGED <<forgotten, pushed, rest>>

NextMoved ==
    \/ snap.tag = "none" /\ Next
    \/ \E j \in Lists : SnSplice(j)
    \/ \E l, j \in Lists : SnTake(l, j)
    \/ \E j \in Lists : SnSplitNull(j)
    \/ SnRelease
    \/ SnDropEmptied

SpecMoved == Init /\ [][NextMoved]_vars

\* The calls of NextEscape, closed by one clear whose pre-state is kept.
NextClear ==
    \/ snap.tag = "none" /\ NextEscape
    \/ \E l \in Lists : SnClear(l)

SpecClear == Init /\ [][NextClear]_vars

\* C6: push_front(x) of an unlinked x followed at once by pop_front() returns
\* x and leaves the head, every next cell and the element sequence as before
\* the push, with x unlinked again.
C6_PushPopRoundTrip ==
    snap.tag = "popped" =>
        /\ last.res = "Some"
        /\ last.val = snap.arg
        /\ head = snap.head
        /\ next = snap.next
        /\ Elems(snap.list) = ElemsOf(snap.head, snap.next, snap.list)
        /\ ~Linked(snap.arg)

\* The round trip on a list that held two elements before the push.
C6_Witness ==
    /\ snap.tag = "popped"
    /\ Len(ElemsOf(snap.head, snap.next, snap.list)) = 2
    /\ last.val = snap.arg

\* C7: split_after() followed at once by splice_after(the returned list) at
\* the same cursor restores the element order and leaves the cursor where it was.
C7_SplitSpliceRoundTrip ==
    snap.tag = "spliced" =>
        /\ Elems(snap.list) = ElemsOf(snap.head, snap.next, snap.list)
        /\ cur = snap.cur
        /\ head[snap.arg] = None

\* The round trip with the cursor at the first of three elements.
C7_Witness ==
    /\ snap.tag = "spliced"
    /\ Len(Elems(snap.list)) = 3
    /\ cur.current = head[snap.list]
    /\ snap.cur.current = snap.head[snap.list]

\* ------------------------------------------ element order after one call
\* A split_after step whose result is kept in root j.
C8_Split(j) ==
    (last'.op = "split_after" /\ last'.arg = j /\ SplitAfter(j)) =>
        LET old == Elems(cur.list)
            i == PosOf(head, next, cur.list, cur.current)
        IN  /\ ElemsOf(head', next', cur.list) = SubSeq(old, 1, i)
            /\ ElemsOf(head', next', j) = SubSeq(old, i + 1, Len(old))
            /\ \A o \in Range(old) : LinkedIn(next', o)
            /\ Cardinality(Range(old)) = Len(old)

\* C8: split_after() at the i-th element of [e1..en] leaves [e1..ei] and
\* returns [e(i+1)..en] (i = 0 at Null); the two lists hold the original
\* elements, each once, and every element stays linked.
C8_SplitAfterParts == [][\A j \in Lists : C8_Split(j)]_vars

\* A split in the middle: the cursor's element is last in its list and the
\* returned list is not empty.
C8_Witness ==
    /\ last.op = "split_after"
    /\ cur.current # None
    /\ next[cur.current] = None
    /\ Len(Elems(cur.list)) = 2
    /\ Len(Elems(last.val)) = 1

\* A splice_after step that consumes root j.
C9_Splice(j) ==
    (last'.op = "splice_after" /\ last'.arg = j /\ SpliceAfter(j)) =>
        LET old == Elems(cur.list)
            other == Elems(j)
            i == PosOf(head, next, cur.list, cur.current)
        IN  /\ ElemsOf(head', next', cur.list) =
                   SubSeq(old, 1, i) \o other \o SubSeq(old, i + 1, Len(old))
            /\ ElemsOf(head', next', j) = <<>>
            /\ head'[j] = None
            /\ \A o \in Range(other) : LinkedIn(next', o)

C10_Insert(val) ==
    (/\ last'.op = "insert_after"
     /\ last'.arg = val
     /\ last'.res # "Panic"
     /\ InsertAfter(val)) =>
        LET old == Elems(cur.list)
            i == PosOf(head, next, cur.list, cur.current)
            new == ElemsOf(head', next', cur.list)
        IN  /\ new = SubSeq(old, 1, i) \o <<val>> \o SubSeq(old, i + 1, Len(old))
            /\ Len(new) = Len(old) + 1
            /\ cur.current = None => head'[cur.list] = get_link(1, val)
            /\ cur.current # None =>
                  /\ next'[cur.current] = get_link(1, val)
                  /\ next'[get_link(1, val)] = next[cur.current]

\* C10: a successful insert_after(obj) at the i-th element puts obj right
\* after it (at the front and as the head for i = 0 at Null), keeps the
\* order of the other elements and makes the list one longer.
C10_InsertAfterPlace == [][\A val \in Obj : C10_Insert(val)]_vars

\* An insertion between two elements.
C10_Witness ==
    /\ last.op = "insert_after"
    /\ last.res = "Unit"
    /\ cur.current # None
    /\ next[cur.current] = get_link(1, last.arg)
    /\ next[get_link(1, last.arg)] # None

\* ------------------------------------------------------------ remove_next
\* A remove_next step at the live cursor.
C11_Remove ==
    (last'.op = "remove_next" /\ RemoveNext) =>
        LET l == cur.list
            old == Elems(l)
            i == PosOf(head, next, l, cur.current)
            new == ElemsOf(head', next', l)
        IN  IF i = Len(old)
            THEN /\ last'.res = "None"
                 /\ head' = head
                 /\ next' = next
                 /\ raw' = raw
                 /\ cur' = cur
            ELSE /\ last'.res = "Some"
                 /\ last'.val = old[i + 1]
                 /\ new = SubSeq(old, 1, i) \o SubSeq(old, i + 2, Len(old))
                 /\ cur.current = None => head'[l] = next[head[l]]
                 /\ cur.current # None => head'[l] = head[l]
                 /\ \A r \in Roots \ {l} : ElemsOf(head', next', r) = Elems(r)
                 /\ cur' = cur

\* C11: remove_next() with no successor (empty list at Null, or cursor at the
\* last element) returns None and changes nothing; otherwise it removes
\* exactly the element after the cursor (the head element at Null, the head
\* becoming that element's successor), returns it and keeps the order of all
\* remaining elements.
C11_RemoveNextExact == [][C11_Remove]_vars

\* A removal between two elements: the cursor's element now points at the
\* former successor of the removed one.
C11_Witness ==
    /\ last.op = "remove_next"
    /\ last.res = "Some"
    /\ cur.current # None
    /\ next[cur.current] # None
    /\ ~Linked(last.val)

\* ------------------------------------------------------ replace_next_with
\* A replace_next_with(val) step at a cursor with no successor.
C12_AtTail(val) ==
    (/\ last'.op = "replace_next_with"
     /\ last'.arg = val
     /\ PosOf(head, next, cur.list, cur.current) = Len(Elems(cur.list))
     /\ ReplaceNextWith(val)) =>
        /\ last'.res = "Err"
        /\ last'.val = val
        /\ head' = head
        /\ next' = next
        /\ raw' = raw
        /\ cur' = cur
        /\ ElemsOf(head', next', cur.list) = Elems(cur.list)
        /\ LinkedIn(next', val) <=> LinkedIn(next, val)

\* C12: replace_next_with(obj) at a cursor with no successor (at the last
\* element, or at Null on an empty list) returns Err(obj); the head, the
\* length and order of the list, every next cell and obj's linked state are
\* as before the call.
C12_ReplaceAtTailEchoes == [][\A val \in Obj : C12_AtTail(val)]_vars

\* Err handed back at the last element of a two-element list.
C12_Witness ==
    /\ last.op = "replace_next_with"
    /\ last.res = "Err"
    /\ last.val = last.arg
    /\ cur.current # None
    /\ next[cur.current] = None
    /\ Len(Elems(cur.list)) = 2
    /\ ~Linked(last.arg)

\* A replace_next_with(val) step with val unlinked and a successor s.
C13_Replace(val) ==
    (/\ last'.op = "replace_next_with"
     /\ last'.arg = val
     /\ ~LinkedIn(next, val)
     /\ PosOf(head, next, cur.list, cur.current) < Len(Elems(cur.list))
     /\ ReplaceNextWith(val)) =>
        LET l == cur.list
            old == Elems(l)
            i == PosOf(head, next, l, cur.current)
            s == old[i + 1]
            new == ElemsOf(head', next', l)
        IN  /\ last'.res = "Ok"
            /\ last'.val = s
            /\ new = [old EXCEPT ![i + 1] = val]
            /\ Len(new) = Len(old)
            /\ next'[get_link(1, val)] = next[get_link(1, s)]
            /\ cur.current = None => head'[l] = get_link(1, val)
            /\ cur.current # None =>
                  /\ next'[cur.current] = get_link(1, val)
                  /\ head'[l] = head[l]
            /\ ~LinkedIn(next', s)
            /\ \A r \in Roots \ {l} : ElemsOf(head', next', r) = Elems(r)

\* C13: replace_next_with(obj) at a cursor with successor s puts obj at s's
\* position (obj's successor is s's former successor; the predecessor, or the
\* head at Null, refers to obj), returns Ok(s), keeps the length and the order
\* of the other elements, and leaves s unlinked.
C13_ReplaceInPlace == [][\A val \in Obj : C13_Replace(val)]_vars

\* The head element replaced from the Null position, with an element behind it.
C13_Witness ==
    /\ last.op = "replace_next_with"
    /\ last.res = "Ok"
    /\ cur.list # 0
    /\ cur.current = None
    /\ head[cur.list] = get_link(1, last.arg)
    /\ next[get_link(1, last.arg)] # None

\* A replace_next_with(val) step with val's link reporting linked.
C14_LinkedArg(val) ==
    /\ last'.op = "replace_next_with"
    /\ last'.arg = val
    /\ LinkedIn(next, val)
    /\ ReplaceNextWith(val)

C15_Safe ==
    {"move_next", "peek_next", "get", "is_null", "remove_next", "pop_front",
     "front", "splice_after", "split_after", "take", "clear", "fast_clear"}

\* The cursor of the step has no successor: it is at the last element, or at
\* Null on an empty list.
C15_AtEnd == PosOf(head, next, cur.list, cur.current) = Len(Elems(cur.list))

\* What one call returns on an empty list or at the last element.
C15_Empty ==
    /\ last'.op = "remove_next" /\ C15_AtEnd => last'.res = "None"
    /\ last'.op = "pop_front" /\ head[last'.arg] = None => last'.res = "None"
    /\ last'.op = "peek_next" /\ C15_AtEnd => last'.val = None
    /\ last'.op = "move_next" /\ C15_AtEnd => cur'.current = None
    /\ last'.op = "get" /\ cur.current = None => last'.res = "None"
    /\ last'.op = "front" /\ head[last'.arg] = None => last'.val = None
    /\ last'.op = "replace_next_with" /\ C15_AtEnd =>
          last'.res = "Err" /\ last'.val = last'.arg
    /\ last'.op = "split_after" /\ C15_AtEnd => head'[last'.val] = None
    /\ last'.op = "take" /\ head[last'.arg] = None => head'[last'.val] = None

\* C15: a call ends in a panic only if it is an insertion (insert_after,
\* push_front, replace_next_with) of an object whose link reports linked;
\* move_next, peek_next, get, is_null, remove_next, pop_front, front,
\* replace_next_with without a successor, splice_after, split_after, take,
\* clear and fast_clear never panic, and on an empty list or at the last
\* element they return an empty result or the object handed in.
C15_OnlyLinkedInsertPanics ==
    [][/\ last'.res = "Panic" =>
             /\ last'.op \in {"insert_after", "push_front", "replace_next_with"}
             /\ LinkedIn(next, last'.arg)
       /\ last'.op \in C15_Safe => last'.res # "Panic"
       /\ C15_Empty]_vars

\* peek_next at the last element, with a linked-but-forgotten object around
\* that an insertion would reject.
C15_Witness ==
    /\ last.op = "peek_next"
    /\ last.val = None
    /\ cur.current # None
    /\ forgotten # {}

\* ------------------------------------------------------------------ clear
\* A clear step on list l.
C16_Clear(l) ==
    (last'.op = "clear" /\ last'.arg = l /\ Clear(l)) =>
        /\ head'[l] = None
        /\ ElemsOf(head', next', l) = <<>>
        /\ \A p \in Members(l) :
              /\ ~is_linked(next', p)
              /\ raw'[p] = raw[p] - 1
        /\ \A p \in Links \ Members(l) :
              /\ next'[p] = next[p]
              /\ raw'[p] = raw[p]
        /\ \A r \in Roots \ {l} : head'[r] = head[r]

\* C16: clear() on a list of any length leaves it empty and every former
\* member reporting unlinked, with from_raw called exactly once for each
\* member and for nothing else.
C16_ClearUnlinksAll == [][\A l \in Lists : C16_Clear(l)]_vars

\* After the clear of a list of two members, with the third object in the
\* other list.
C16_Witness ==
    /\ snap.tag = "cleared"
    /\ Len(ElemsOf(snap.head, snap.next, snap.list)) = 2
    /\ \A o \in Range(ElemsOf(snap.head, snap.next, snap.list)) :
          ~Linked(o) /\ raw[get_link(1, o)] = 0
    /\ head[snap.list] = None
    /\ Cardinality(AllMembers) = 1

\* ----------------------------------------------- fast_clear, force_unlink
\* A fast_clear step on list l.
C17_FastClear(l) ==
    (last'.op = "fast_clear" /\ last'.arg = l /\ FastClear(l)) =>
        /\ head'[l] = None
        /\ next' = next
        /\ raw' = raw
        /\ \A p \in Members(l) : is_linked(next', p)
        /\ \A r \in Roots \ {l} : head'[r] = head[r]

\* A force_unlink step on link p.
C17_ForceUnlink(p) ==
    (last'.op = "force_unlink" /\ last'.arg = p /\ ForceUnlink(p)) =>
        /\ ~is_linked(next', p)
        /\ head' = head
        /\ \A q \in Links \ {p} : next'[q] = next[q]
        /\ \A r \in Roots : ElemsOf(head', next', r) = Elems(r)

\* C17: fast_clear() leaves the list empty, every next cell as it was and so
\* every former member reporting linked; a former member reports unlinked
\* only after a force_unlink on its link, and force_unlink changes no list.
C17_FastClearKeepsLinks ==
    [][/\ \A l \in Lists : C17_FastClear(l)
       /\ \A p \in Links : C17_ForceUnlink(p)
       /\ \A p \in forgotten :
             is_linked(next', p) \/ (last'.op = "force_unlink" /\ last'.arg = p)]_vars

\* After force_unlink on one of two objects left behind by a fast_clear, with
\* the third object in a list.
C17_Witness ==
    /\ last.op = "force_unlink"
    /\ ~is_linked(next, last.arg)
    /\ Cardinality(forgotten) = 1
    /\ \A p \in forgotten : is_linked(next, p) /\ p \notin AllMembers
    /\ Cardinality(AllMembers) = 1

\* An attempt to insert val: insert_after, push_front, or replace_next_with
\* at a cursor that has a successor.
C18_Attempt(val) ==
    /\ last'.arg = val
    /\ \/ last'.op = "insert_after" /\ InsertAfter(val)
       \/ last'.op = "push_front" /\ \E l \in Lists : PushFront(l, val)
       \/ /\ last'.op = "replace_next_with"
          /\ PosOf(head, next, cur.list, cur.current) < Len(Elems(cur.list))
          /\ ReplaceNextWith(val)

\* C18: an attempt to insert an object that fast_clear left behind and that
\* has not been force_unlinked since panics and leaves every list as it was;
\* right after force_unlink on its link the insertion succeeds and the
\* object is a member of a list.
C18_ForgottenRejected ==
    [][\A val \in Obj : C18_Attempt(val) =>
          /\ get_link(1, val) \in forgotten =>
                /\ last'.res = "Panic"
                /\ head' = head
                /\ next' = next
                /\ raw' = raw
          /\ last.op = "force_unlink" /\ last.arg = get_link(1, val) =>
                /\ last'.res # "Panic"
                /\ \E l \in Lists :
                      get_link(1, val) \in Reach(next', head'[l], Cardinality(Links))]_vars

\* push_front of an object left behind by fast_clear has just panicked, on a
\* list that has a member.
C18_Witness ==
    /\ last.op = "push_front"
    /\ last.res = "Panic"
    /\ get_link(1, last.arg) \in forgotten
    /\ ~IsMember(last.arg)
    /\ AllMembers # {}

\* -------------------------------------------------------- two link fields
\* The links of one field, and the roots whose lists use it.
LinksOf(a) == {get_link(a, o) : o \in Obj}
RootsOf(a) == {r \in Roots : AdapterOf(r) = a}

C19_CursorOps ==
    {"move_next", "insert_after", "remove_next", "replace_next_with",
     "splice_after", "split_after"}

\* The step is a call on list l: through the cursor on l, or on the root.
C19_On(l) ==
    \/ cur.list = l /\ last'.op \in C19_CursorOps
    \/ last'.op \in {"cursor_mut", "pop_front", "clear", "take"} /\ last'.arg = l
    \/ last'.op = "push_front" /\ \E val \in Obj : PushFront(l, val)

\* An insertion of val into list l.
C19_Insertion(l, val) ==
    /\ last'.arg = val
    /\ \/ last'.op = "insert_after" /\ cur.list = l /\ InsertAfter(val)
       \/ last'.op = "push_front" /\ PushFront(l, val)

\* C19: a call on a list leaves every next cell of the other link field and
\* the head and element order of every list that uses the other field
\* unchanged; an insertion into a list panics exactly when the object's link
\* of that list's field reports linked, whatever the other field's state, and
\* otherwise makes the object a member, so that an object can be in one list
\* per field at the same time.
C19_FieldsIndependent ==
    [][\A l \in Roots :
          /\ C19_On(l) =>
                \A a \in Adapters \ {AdapterOf(l)} :
                    /\ \A p \in LinksOf(a) : next'[p] = next[p] /\ raw'[p] = raw[p]
                    /\ \A r \in RootsOf(a) :
                          /\ head'[r] = head[r]
                          /\ ElemsOf(head', next', r) = Elems(r)
          /\ \A val \in Obj : C19_Insertion(l, val) =>
                /\ last'.res = "Panic" <=> is_linked(next, get_link(AdapterOf(l), val))
                /\ last'.res # "Panic" =>
                      get_link(AdapterOf(l), val)
                          \in Reach(next', head'[l], Cardinality(Links))]_vars

\* Two objects in a list over link1 and, in the opposite order, in the list
\* over link2.
C19_Witness ==
    /\ Len(Elems(List2)) = 2
    /\ \E l \in Lists :
          /\ Len(Elems(l)) = 2
          /\ Elems(l)[1] = Elems(List2)[2]
          /\ Elems(l)[2] = Elems(List2)[1]
    /\ last.op = "push_front"

\* -------------------------------------------------------------- move_next
\* `let mut cur = l.cursor_mut()`, then move_next() over and over until the
\* list's length plus one calls are made; snap.arg counts the calls.
WalkStart(l) ==
    /\ snap.tag = "none"
    /\ CursorMutNew(l)
    /\ snap' = Snapshot("walk", l, 0)
    /\ UNCHANGED <<forgotten, pushed, rest>>

WalkStep ==
    /\ snap.tag = "walk"
    /\ snap.arg <= Len(Elems(snap.list))
    /\ MoveNext
    /\ snap' = [snap EXCEPT !.arg = @ + 1]
    /\ UNCHANGED <<forgotten, pushed, rest>>

NextWalk ==
    \/ snap.tag = "none" /\ Next
    \/ \E l \in Lists : WalkStart(l)
    \/ WalkStep

SpecWalk == Init /\ [][NextWalk]_vars

\* One move_next step at the live cursor.
C20_Move ==
    (last'.op = "move_next" /\ MoveNext) =>
        LET e == Elems(cur.list)
            i == PosOf(head, next, cur.list, cur.current)
        IN  /\ cur'.list = cur.list
            /\ cur'.current = IF i < Len(e) THEN get_link(1, e[i + 1]) ELSE None
            /\ head' = head
            /\ next' = next
            /\ raw' = raw

\* After k move_next calls from Null on a list of n elements the cursor is at
\* the k-th element, and at Null for k = n + 1.
C20_Walk ==
    snap.tag = "walk" =>
        LET e == Elems(snap.list)
            k == snap.arg
        IN  /\ cur.list = snap.list
            /\ k <= Len(e) + 1
            /\ cur.current = IF 1 <= k /\ k <= Len(e)
                              THEN get_link(1, e[k]) ELSE None

\* C20: move_next at Null moves to the head element, or stays at Null on an
\* empty list; at element x it moves to x's successor, or to Null when x is
\* the last element; n + 1 successive calls from Null on a list of n elements
\* visit the elements in list order and end at Null.
C20_MoveNextWalk == [][C20_Move]_vars /\ []C20_Walk

\* The fourth move_next of a walk over three elements has brought the cursor
\* back to Null.
C20_Witness ==
    /\ snap.tag = "walk"
    /\ Len(Elems(snap.list)) = 3
    /\ snap.arg = 4
    /\ cur.current = None
    /\ last.op = "move_next"

\* ------------------------------------------------- the cursor stays put
\* C21: insert_after, remove_next and replace_next_with leave the cursor where
\* it is, at Null or at the same element; that element is still a member of
\* the list, at the same place counted from the front, and still linked.
C21_CursorStays ==
    [][(/\ last'.op \in {"insert_after", "remove_next", "replace_next_with"}
        /\ \/ \E val \in Obj : InsertAfter(val)
           \/ RemoveNext
           \/ \E val \in Obj : ReplaceNextWith(val)) =>
          /\ cur' = cur
          /\ cur.current # None =>
                /\ cur.current \in Reach(next', head'[cur.list], Cardinality(Links))
                /\ is_linked(next', cur.current)
                /\ PosOf(head', next', cur.list, cur.current)
                       = PosOf(head, next, cur.list, cur.current)]_vars

\* A replacement right behind a cursor that is at the first of two elements.
C21_Witness ==
    /\ last.op = "replace_next_with"
    /\ last.res = "Ok"
    /\ cur.current # None
    /\ PosOf(head, next, cur.list, cur.current) = 1
    /\ Len(Elems(cur.list)) = 2

\* ------------------------------------------------------------------- take
\* A take step on list l whose result is kept in root j.
C23_Take(l, j) ==
    (last'.op = "take" /\ last'.arg = l /\ last'.val = j /\ Take(l, j)) =>
        /\ ElemsOf(head', next', j) = Elems(l)
        /\ ElemsOf(head', next', l) = <<>>
        /\ head'[l] = None
        /\ next' = next
        /\ raw' = raw
        /\ \A o \in Range(Elems(l)) : LinkedIn(next', o)
        /\ \A r \in Roots \ {l, j} : head'[r] = head[r]

\* C23: take() returns a new list with all elements of the original in the
\* same order and leaves the original empty; every moved element still
\* reports linked and no next cell is written.
C23_TakeMovesAll == [][\A l, j \in Lists : C23_Take(l, j)]_vars

\* After a take of a list of two elements.
C23_Witness ==
    /\ last.op = "take"
    /\ head[last.arg] = None
    /\ Len(Elems(last.val)) = 2
    /\ \A o \in Range(Elems(last.val)) : Linked(o)

\* -------------------------------------------------------------- peek_next
\* A peek_next step at the live cursor.
C22_Peek ==
    (last'.op = "peek_next" /\ PeekNext) =>
        LET e == Elems(cur.list)
            i == PosOf(head, next, cur.list, cur.current)
        IN  /\ last'.val = IF i < Len(e) THEN get_link(1, e[i + 1]) ELSE None
            /\ cur' = cur
            /\ head' = head
            /\ next' = next
            /\ raw' = raw

\* C22: peek_next returns a cursor at the position move_next would reach (the
\* head element from Null, the successor from an element, Null when there is
\* no successor) and changes neither the cursor it is called on nor the list.
C22_PeekNextLooksAhead == [][C22_Peek]_vars

\* peek_next from the first element of a list has returned the second.
C22_Witness ==
    /\ last.op = "peek_next"
    /\ cur.current # None
    /\ cur.current = head[cur.list]
    /\ last.val # None
    /\ last.val = next[cur.current]

\* --------------------------------------------------------------- Iter
\* A next() step on the iterator in slot i.
C25_Next(i) ==
    (last'.op = "iter_next" /\ last'.arg = i /\ IterNext(i)) =>
        LET e == Elems(it[i].list)
            k == it[i].n
        IN  /\ k < Len(e) =>
                  /\ last'.res = "Some"
                  /\ last'.val = e[k + 1]
                  /\ it'[i].n = k + 1
            /\ k >= Len(e) =>
                  /\ last'.res = "None"
                  /\ it'[i] = it[i]
            /\ \A j \in IterIds \ {i} : it'[j] = it[j]
            /\ head' = head
            /\ next' = next
            /\ raw' = raw

\* An iterator that has yielded n elements stands at the (n+1)-th element, and
\* at None once all have been yielded; a clone starts where its original is.
C25_Position ==
    \A i \in IterIds : it[i].list # 0 =>
        LET e == Elems(it[i].list)
        IN  /\ it[i].n <= Len(e)
            /\ it[i].current = IF it[i].n < Len(e)
                                THEN get_link(1, e[it[i].n + 1]) ELSE None

\* C25: iter(), and a clone of an iterator taken at any point, yields the
\* list's elements front to back, each once, then None; no next() call
\* changes a head, a next cell, a linked state or the other iterator.
C25_IterReadsInOrder ==
    [][\A i \in IterIds : C25_Next(i)]_vars /\ []C25_Position

\* The original has run through three elements and returned None; its clone,
\* taken after the first element, has yielded one more.
C25_Witness ==
    /\ it[1].list # 0
    /\ Len(Elems(it[1].list)) = 3
    /\ it[1].n = 3
    /\ it[1].current = None
    /\ it[2].list = it[1].list
    /\ it[2].n = 2
    /\ last.op = "iter_next"
    /\ last.res = "None"

\* ---------------------------------------------------------- clone_pointer
\* The owning handles to object o: those held by lists (one per into_raw not
\* yet undone by from_raw) and those made by clone_pointer.
OwnersIn(rw, cl, o) == rw[get_link(1, o)] + rw[get_link(2, o)] + cl[o]

\* A clone_pointer step at the live cursor.
C30_Clone ==
    (last'.op = "clone_pointer" /\ ClonePointer) =>
        /\ cur.current = None =>
              /\ last'.res = "None"
              /\ clones' = clones
        /\ cur.current # None =>
              LET o == get_value(1, cur.current)
              IN  /\ last'.res = "Some"
                  /\ last'.val = o
                  /\ OwnersIn(raw', clones', o) = OwnersIn(raw, clones, o) + 1
                  /\ \A o2 \in Obj \ {o} :
                        OwnersIn(raw', clones', o2) = OwnersIn(raw, clones, o2)
        /\ raw' = raw
        /\ head' = head
        /\ next' = next
        /\ cur' = cur

\* A list holds one owning handle per member.
C30_OneHandlePerMember == \A p \in AllMembers : raw[p] = 1

\* C30: clone_pointer at an element gives one more owning handle to that
\* element (the owner count rises by exactly one) and changes neither the
\* list nor the handle the list holds; at Null it returns None; a list holds
\* exactly one owning handle per member.
C30_ClonePointerAddsOwner ==
    [][C30_Clone]_vars /\ []C30_OneHandlePerMember

\* A handle cloned at the second element of a list.
C30_Witness ==
    /\ last.op = "clone_pointer"
    /\ last.res = "Some"
    /\ clones[last.val] = 1
    /\ raw[get_link(1, last.val)] = 1
    /\ cur.current = get_link(1, last.val)
    /\ cur.current # head[cur.list]

\* ---------------------------------------------------------------- IntoIter
\* C24: a consuming iterator over [e1..en] that has yielded k elements has
\* yielded e1..ek in this order (the last next() returned ek), holds
\* e(k+1)..en, and every yielded element reports unlinked, with its handle
\* rebuilt, from the moment it is yielded; next() returns None exactly when
\* all n have been yielded.
C24_IntoIterInOrder ==
    snap.tag = "into_iter" =>
        LET e == ElemsOf(snap.head, snap.next, snap.list)
            k == snap.arg
        IN  /\ k <= Len(e)
            /\ Elems(snap.list) = SubSeq(e, k + 1, Len(e))
            /\ \A i \in 1..k :
                  /\ ~Linked(e[i])
                  /\ raw[get_link(1, e[i])] = snap.raw[get_link(1, e[i])] - 1
            /\ \A i \in (k + 1)..Len(e) :
                  /\ Linked(e[i])
                  /\ raw[get_link(1, e[i])] = snap.raw[get_link(1, e[i])]
            /\ last.op = "into_iter_next" =>
                  /\ last.res = "Some" => k >= 1 /\ last.val = e[k]
                  /\ last.res = "None" <=> (k = Len(e) /\ last.val = None)
                  /\ last.res \in {"Some", "None"}

\* Two of three elements have been yielded.
C24_Witness ==
    /\ snap.tag = "into_iter"
    /\ Len(ElemsOf(snap.head, snap.next, snap.list)) = 3
    /\ snap.arg = 2
    /\ last.op = "into_iter_next"
    /\ last.val = ElemsOf(snap.head, snap.next, snap.list)[2]
    /\ Len(Elems(snap.list)) = 1

\* ------------------------------------------------------------------- Drop
\* The drop of list root l.
C26_Drop(l) ==
    (last'.op = "drop" /\ last'.arg = l /\ DropList(l)) =>
        /\ head'[l] = None
        /\ \A p \in Members(l) :
              /\ ~is_linked(next', p)
              /\ raw'[p] = raw[p] - 1
        /\ \A p \in Links \ Members(l) :
              /\ next'[p] = next[p]
              /\ raw'[p] = raw[p]
        /\ \A r \in Roots \ {l} : head'[r] = head[r]
        /\ head' = clear(Heap, l).head
        /\ next' = clear(Heap, l).next
        /\ raw' = clear(Heap, l).raw

\* C26: when a list is dropped every element that is a member at that moment
\* is marked unlinked and has from_raw called for it exactly once, nothing
\* else is touched, and the outcome is that of clear().
C26_DropClears == [][\A l \in Lists : C26_Drop(l)]_vars

\* After the drop of a list of three members.
C26_Witness ==
    /\ snap.tag = "dropped"
    /\ Len(ElemsOf(snap.head, snap.next, snap.list)) = 3
    /\ \A o \in Obj : ~Linked(o) /\ raw[get_link(1, o)] = 0
    /\ last.op = "drop"

\* ------------------------------------------------------------- Link clone
\* C27: right after `dst = src.clone()` both links of dst report unlinked,
\* also when src is linked, and src's links, every head and every list are
\* as before; pushing dst onto the list src is in then succeeds, and both are
\* members of it.
C27_CloneUnlinked ==
    /\ snap.tag = "cloned" =>
          /\ \A a \in Adapters :
                /\ ~is_linked(next, get_link(a, last.val))
                /\ next[get_link(a, snap.arg)] = snap.next[get_link(a, snap.arg)]
          /\ head = snap.head
          /\ \A r \in Roots : Elems(r) = ElemsOf(snap.head, snap.next, r)
          /\ raw = snap.raw
    /\ snap.tag = "clone_pushed" =>
          /\ last.res = "Unit"
          /\ Linked(last.arg)
          /\ snap.list # 0 =>
                /\ get_link(1, last.arg) = head[snap.list]
                /\ get_link(1, snap.arg) \in Members(snap.list)
                /\ Elems(snap.list) =
                       <<last.arg>> \o ElemsOf(snap.head, snap.next, snap.list)

\* The clone of a linked object has been pushed onto the original's list,
\* which had two members.
C27_Witness ==
    /\ snap.tag = "clone_pushed"
    /\ snap.list # 0
    /\ Len(Elems(snap.list)) = 3
    /\ snap.next[get_link(1, snap.arg)] # UNLINKED_MARKER
    /\ last.arg # snap.arg

\* ------------------------------------------------------ clear terminates
\* The number of iterations of clear's loop that visit p.
VisitsOf(seen, p) == Cardinality({i \in 1..Len(seen) : seen[i] = p})

\* C28: in every reachable state, fast_clear and force_unlink included, the
\* loop of clear() on any list ends, after one iteration for each member and
\* none for any other link; the clear that was run left every element it
\* visited unlinked with its handle rebuilt once.
C28_ClearTerminates ==
    /\ \A l \in Lists :
          LET t == clear_trace(next, head[l], Fuel)
          IN  /\ t.done
              /\ Len(t.seen) = Cardinality(Members(l))
              /\ \A p \in Links :
                    VisitsOf(t.seen, p) = IF p \in Members(l) THEN 1 ELSE 0
              /\ \A p \in Links :
                    /\ clear(Heap, l).raw[p] = raw[p] - VisitsOf(t.seen, p)
                    /\ VisitsOf(t.seen, p) = 1 =>
                          ~is_linked(clear(Heap, l).next, p)
    /\ snap.tag = "cleared" =>
          LET t == clear_trace(snap.next, snap.head[snap.list], Fuel)
          IN  /\ t.done
              /\ head[snap.list] = None
              /\ \A p \in Links :
                    /\ raw[p] = snap.raw[p] - VisitsOf(t.seen, p)
                    /\ VisitsOf(t.seen, p) = 1 => ~is_linked(next, p)
                    /\ VisitsOf(t.seen, p) = 0 => next[p] = snap.next[p]

\* A clear has run on a list of three members.
C28_Witness ==
    /\ snap.tag = "cleared"
    /\ last.op = "clear"
    /\ Len(clear_trace(snap.next, snap.head[snap.list], Fuel).seen) = 3
    /\ \A o \in Obj : ~Linked(o)

\* ------------------------------------------------- marker distinguishable
\* The values a head or the next cell of a member can hold.
NextOrEnd == Links \cup {None}

\* C29: in every reachable state the head of each list and the next cell of
\* each element reachable from a head hold None or the address of a link,
\* never the unlinked marker, which is neither; so every member reports
\* linked, the last element of a chain (next = None) and the only element of
\* a one-element list included.
C29_MarkerDistinct ==
    /\ UNLINKED_MARKER \notin NextOrEnd
    /\ \A l \in Roots :
          /\ head[l] \in NextOrEnd
          /\ head[l] # UNLINKED_MARKER
          /\ \A p \in Members(l) :
                /\ next[p] \in NextOrEnd
                /\ next[p] # UNLINKED_MARKER
                /\ is_linked(next, p)
                /\ next[p] = None => is_linked(next, p)
          /\ Cardinality(Members(l)) = 1 => is_linked(next, head[l])

\* One list has a single element and the other two; both chains end in an
\* element whose next cell is None and which reports linked.
C29_Witness ==
    \E l, j \in Lists :
        /\ Len(Elems(l)) = 1
        /\ Len(Elems(j)) = 2
        /\ next[head[l]] = None
        /\ is_linked(next, head[l])
        /\ next[next[head[j]]] = None
        /\ is_linked(next, next[head[j]])

\* ------------------------------------------------- ownership accounting
\* The into_raw/from_raw balance of each link is 1 for a member of a list and
\* 0 for every other link.
C31_Balance ==
    \A p \in Links : raw[p] = IF p \in AllMembers THEN 1 ELSE 0

\* A step rebuilds a handle (the balance falls) only for a link whose balance
\* was 1 and that leaves its list, by one; the balance rises only for a link
\* that enters a list, by one; a call that panics leaves every balance.
C31_Step ==
    /\ \A p \in Links :
          /\ raw'[p] < raw[p] =>
                /\ raw[p] = 1
                /\ raw'[p] = 0
                /\ p \in AllMembers
                /\ p \notin AllMembers'
          /\ raw'[p] > raw[p] =>
                /\ raw[p] = 0
                /\ raw'[p] = 1
                /\ p \notin AllMembers
                /\ p \in AllMembers'
    /\ last'.res = "Panic" => raw' = raw

\* C31: over every sequence of the safe calls on both link fields (no
\* fast_clear), into_raw minus from_raw is 1 for each (object, link field)
\* that is a member of a list and 0 otherwise; from_raw only ever meets a
\* balance of 1, and no link outside every list keeps a balance of 1.
C31_OwnershipAccounting == []C31_Balance /\ [][C31_Step]_vars

\* An object is a member through both of its link fields, and a
\* replace_next_with has just handed back the element it replaced.
C31_Witness ==
    /\ last.op = "replace_next_with"
    /\ last.res = "Ok"
    /\ raw[get_link(1, last.val)] = 0
    /\ ~Linked(last.val)
    /\ raw[get_link(1, last.arg)] = 1
    /\ \E o \in Obj :
          /\ get_link(1, o) \in AllMembers
          /\ get_link(2, o) \in AllMembers
          /\ raw[get_link(1, o)] = 1
          /\ raw[get_link(2, o)] = 1

\* ------------------------------------------------ drop of an emptied list
\* The elements of list l in the kept state.
SnapElems(l) == ElemsOf(snap.head, snap.next, l)

\* Every object of sequence e is a linked member of list l whose handle the
\* list still holds.
C32_StillIn(e, l) ==
    \A i \in 1..Len(e) :
        /\ Linked(e[i])
        /\ get_link(1, e[i]) \in Members(l)
        /\ raw[get_link(1, e[i])] = 1

\* C32: the argument of splice_after is empty when it is dropped at the end
\* of the call, and so is the list emptied by take() or by split_after() at
\* Null when it is dropped later: the drop rebuilds no handle and unlinks
\* nothing, and the elements that moved are linked members of the list that
\* received them, in their order.
C32_EmptiedDropsNothing ==
    /\ snap.tag = "spliced_in" =>
          /\ head[snap.arg] = None
          /\ raw = snap.raw
          /\ C32_StillIn(SnapElems(snap.arg), snap.list)
          /\ C32_StillIn(SnapElems(snap.list), snap.list)
          /\ Len(Elems(snap.list)) =
                 Len(SnapElems(snap.list)) + Len(SnapElems(snap.arg))
    /\ snap.tag \in {"taken", "split_null", "emptied_dropped"} =>
          /\ head[snap.list] = None
          /\ Elems(snap.arg) = SnapElems(snap.list)
          /\ C32_StillIn(SnapElems(snap.list), snap.arg)
          /\ raw = snap.raw
          /\ next = snap.next
    /\ snap.tag = "emptied_dropped" =>
          /\ last.op = "drop"
          /\ last.arg = snap.list
          /\ \A r \in Roots \ {snap.list, snap.arg} : head[r] = snap.head[r]

\* A list of two elements was emptied by take() or by split_after() at Null
\* and has been dropped.
C32_Witness ==
    /\ snap.tag = "emptied_dropped"
    /\ Len(SnapElems(snap.list)) = 2
    /\ Len(Elems(snap.arg)) = 2
    /\ last.op = "drop"

\* ------------------------------------------------------- drop of IntoIter
\* The drop of the consuming iterator, as a step.
C33_DropStep ==
    (last'.op = "into_iter_drop" /\ IntoIterDrop) =>
        /\ \A p \in Members(snap.list) :
              /\ ~is_linked(next', p)
              /\ raw'[p] = raw[p] - 1
        /\ \A p \in Links \ Members(snap.list) :
              /\ next'[p] = next[p]
              /\ raw'[p] = raw[p]
        /\ head'[snap.list] = None
        /\ Elems(snap.list) =
               SubSeq(SnapElems(snap.list), snap.arg + 1, Len(SnapElems(snap.list)))

\* After the drop every element the iterator was made over, yielded or not,
\* is unlinked and has had its handle rebuilt once in all; nothing else has
\* changed since into_iter.
C33_AfterDrop ==
    snap.tag = "into_iter_dropped" =>
        /\ head[snap.list] = None
        /\ \A p \in Links :
              IF p \in {get_link(1, o) : o \in Range(SnapElems(snap.list))}
              THEN ~is_linked(next, p) /\ raw[p] = snap.raw[p] - 1
              ELSE next[p] = snap.next[p] /\ raw[p] = snap.raw[p]
        /\ \A r \in Roots \ {snap.list} : head[r] = snap.head[r]

\* C33: when a consuming iterator is dropped after k of its n elements were
\* yielded, the n - k elements not yet yielded are marked unlinked and have
\* from_raw called for them once each, and the k yielded elements are left as
\* the yield left them.
C33_IntoIterDropClearsRest == []C33_AfterDrop /\ [][C33_DropStep]_vars

\* An iterator over three elements was dropped after yielding one.
C33_Witness ==
    /\ snap.tag = "into_iter_dropped"
    /\ Len(SnapElems(snap.list)) = 3
    /\ snap.arg = 1
    /\ last.op = "into_iter_drop"
    /\ \A o \in Obj : ~Linked(o) /\ raw[get_link(1, o)] = 0

\* ------------------------------------------------- accesses of splice_after
\* The cells written by the accesses acc, the head cell of the argument j
\* (a value local to the call) left out.
GraphWrites(acc, j) ==
    {i \in 1..Len(acc.writes) : acc.writes[i].cell # HeadCell(j)}

\* The reads and writes of the next cells of the links in sequence c.
TouchesOf(acc, c) ==
    {i \in 1..Len(acc.reads) :
        acc.reads[i].kind = "next" /\ acc.reads[i].at \in Range(c)}
    \cup {Len(acc.reads) + i : i \in
            {k \in 1..Len(acc.writes) :
                acc.writes[k].cell.kind = "next"
                /\ acc.writes[k].cell.at \in Range(c)}}

\* The cell the cursor attaches at: the next cell of its element, or the head
\* of its list when it is at Null.
AtCursor(l, current) == IF current # None THEN NextCell(current) ELSE HeadCell(l)

\* The accesses acc are those of a splice at a cursor without successor: one
\* write, at the cursor, and no access to a next cell of `other`.
C34_OneWrite(acc, l, current, j, other) ==
    /\ Cardinality(GraphWrites(acc, j)) = 1
    /\ \A i \in GraphWrites(acc, j) : acc.writes[i].cell = AtCursor(l, current)
    /\ TouchesOf(acc, other) = {}

\* The accesses acc are those of a splice at a cursor with a successor: the
\* next cell of each element of `other` is read once, front to back, the last
\* one has next = None, and the writes are that element's next and the cell
\* at the cursor.
C34_WalkAndTwoWrites(acc, l, current, j, other) ==
    /\ Len(other) >= 1
    /\ next[other[Len(other)]] = None
    /\ \E f \in [1..Len(other) -> 1..Len(acc.reads)] :
          /\ \A i \in 1..Len(other) : acc.reads[f[i]] = NextCell(other[i])
          /\ \A i \in 1..(Len(other) - 1) : f[i] < f[i + 1]
    /\ Cardinality({i \in 1..Len(acc.reads) : acc.reads[i].kind = "next"
                                               /\ acc.reads[i].at \in Range(other)})
          = Len(other)
    /\ Cardinality(GraphWrites(acc, j)) = 2
    /\ {acc.writes[i].cell : i \in GraphWrites(acc, j)}
          = {NextCell(other[Len(other)]), AtCursor(l, current)}

\* The accesses are those that produce the step: replaying the writes on the
\* state before gives the state after.
C34_Replays(acc) ==
    /\ apply_writes(Heap, acc.writes).head = head'
    /\ apply_writes(Heap, acc.writes).next = next'

\* The statement for every splice_after(other), an empty `other` included.
C34_SpliceAsStated(j) ==
    (last'.op = "splice_after" /\ last'.arg = j /\ SpliceAfter(j)) =>
        LET acc == splice_after_accesses(Heap, cur.list, cur.current, j)
            other == Chain(next, head[j], Fuel)
        IN  /\ C34_Replays(acc)
            /\ IF cursor_next(Heap, cur.list, cur.current) = None
               THEN C34_OneWrite(acc, cur.list, cur.current, j, other)
               ELSE C34_WalkAndTwoWrites(acc, cur.list, cur.current, j, other)

\* C34 as stated: splice_after(other) at a cursor without successor performs
\* exactly one pointer write, at the cursor, and no access to the next cell
\* of an element of other; at a cursor with a successor it walks other to
\* its last element and writes that element's next and the cell at the
\* cursor.  An empty `other` refutes both halves: nothing is written.
C34_AlwaysOneOrTwoWrites == [][\A j \in Lists : C34_SpliceAsStated(j)]_vars

\* The statement for a non-empty `other`, and no access at all to the link
\* graph for an empty one.
C34_Splice(j) ==
    (last'.op = "splice_after" /\ last'.arg = j /\ SpliceAfter(j)) =>
        LET acc == splice_after_accesses(Heap, cur.list, cur.current, j)
            other == Chain(next, head[j], Fuel)
        IN  /\ C34_Replays(acc)
            /\ head'[j] = None
            /\ raw' = raw
            /\ IF head[j] = None
               THEN /\ GraphWrites(acc, j) = {}
                    /\ \A i \in 1..Len(acc.reads) : acc.reads[i] = HeadCell(j)
                    /\ head' = head
                    /\ next' = next
               ELSE IF cursor_next(Heap, cur.list, cur.current) = None
               THEN C34_OneWrite(acc, cur.list, cur.current, j, other)
               ELSE C34_WalkAndTwoWrites(acc, cur.list, cur.current, j, other)

\* The splice whose state before was kept is the replay of its writes.
C34_Replayed ==
    snap.tag = "spliced_in" =>
        LET h0 == [head |-> snap.head, next |-> snap.next, raw |-> snap.raw]
            acc == splice_after_accesses(h0, snap.list, snap.cur.current, snap.arg)
        IN  /\ apply_writes(h0, acc.writes).head = head
            /\ apply_writes(h0, acc.writes).next = next

\* Every splice_after step has the accesses stated.
C34_EverySplice == [][\A j \in Lists : C34_Splice(j)]_vars

\* C34 (amended): for a non-empty other, splice_after at a cursor without
\* successor writes one cell of the receiving list, the cell at the cursor,
\* and reads and writes no next cell of other; at a cursor with a successor
\* it reads the next cell of each element of other once, in order, up to the
\* last, and writes that element's next and the cell at the cursor.  For an
\* empty other it reads other's head alone and writes no cell of the graph.
\* In every case other's own head is None afterwards.
C34_SpliceAccesses == []C34_Replayed /\ C34_EverySplice

\* A list of two elements was spliced in at a cursor at Null in front of one
\* element: the scan read both next cells of the two.
C34_Witness ==
    /\ snap.tag = "spliced_in"
    /\ snap.cur.current = None
    /\ Len(SnapElems(snap.list)) = 1
    /\ Len(SnapElems(snap.arg)) = 2
    /\ Len(tail_scan(snap.next, snap.head[snap.arg])) = 2
    /\ Len(Elems(snap.list)) = 3
    /\ last.op = "splice_after"

====
